---- MODULE Spec2Model ----
(***************************************************************************)
(* Model of the phoenix flight computer (uorocketry/phoenix).              *)
(*                                                                         *)
(*   - DataManager (phoenix/src/data_manager.rs) as pure operators on a    *)
(*     record, exercised call by call under SpecDM;                        *)
(*   - the RTIC application of phoenix/src/main.rs: static priorities,     *)
(*     preemption, priority-ceiling locks, the software-task ready queues  *)
(*     and the two CAN receive handlers, under Spec (safety) and LiveSpec  *)
(*     (the same transitions with fairness);                               *)
(*   - SpecTelemetry: the same application with the sensor_send spawn of   *)
(*     main.rs:345 (commented out in init) enabled.                        *)
(***************************************************************************)
EXTENDS Integers, Naturals, Sequences, FiniteSets, TLC

(***************************************************************************)
(* Bounds of the model.                                                    *)
(***************************************************************************)
\* API calls made on the DataManager in one SpecDM behaviour
MaxOps == 3

\* frames that arrive on the command CAN bus in one behaviour
MaxCmdFrames == 1

\* frames that arrive on the data CAN bus in one behaviour
MaxDataFrames == 1

\* frames the receive FIFO of a CAN controller holds
FifoCap == 2

(***************************************************************************)
(* Envelopes.  An envelope {timestamp, node, payload} is abstracted to     *)
(* its payload kind, its timestamp and one payload argument:               *)
(*   Command : the CommandData variant                                     *)
(*   State   : the StateData value                                         *)
(*   Imu     : which of accelerometers / gyroscopes are Some               *)
(***************************************************************************)
None == [kind |-> "None", stamp |-> 0, arg |-> "-"]

Stamps == {1, 2}

\* messages::sensor::SbgData variants matched by handle_data
SbgKinds ==
  {"EkfNavAcc", "GpsPosAcc", "Air", "EkfNav1", "EkfNav2", "EkfQuat", "GpsVel",
   "GpsVelAcc", "Imu1", "Imu2", "UtcTime", "GpsPos1", "GpsPos2"}

\* messages::sensor::SensorData variants
SensorKinds == SbgKinds \cup {"RecoverySensing", "NavPosLlh", "ResetReason"}

CommandArgs == {"PowerDown", "RateFast", "RateSlow", "DeployDrogue"}

StateArgs == {"Initializing", "Armed"}

Env(k, s, a) == [kind |-> k, stamp |-> s, arg |-> a]

SensorEnvelopes == {Env(k, s, "-") : k \in SensorKinds, s \in Stamps}

CommandEnvelopes == {Env("Command", 1, a) : a \in CommandArgs}

StateEnvelopes == {Env("State", 1, a) : a \in StateArgs}

Envelopes == SensorEnvelopes \cup CommandEnvelopes \cup StateEnvelopes

(***************************************************************************)
(* DataManager                                                             *)
(***************************************************************************)
\* the Option<Message> fields that take_sensors drains
SlotNames ==
  {"air", "ekf_nav_1", "ekf_nav_2", "ekf_nav_acc", "ekf_quat", "madgwick_quat",
   "imu_1", "imu_2", "utc_time", "gps_vel", "gps_vel_acc", "gps_pos_1",
   "gps_pos_2", "gps_pos_acc", "nav_pos_l1h", "recovery_sensing"}

\* DataManager::new(); init then calls set_reset_reason(reset)
DataManagerNew ==
  [air |-> None, ekf_nav_1 |-> None, ekf_nav_2 |-> None, ekf_nav_acc |-> None,
   ekf_quat |-> None, madgwick_quat |-> None, imu_1 |-> None, imu_2 |-> None,
   utc_time |-> None, gps_vel |-> None, gps_vel_acc |-> None,
   gps_pos_1 |-> None, gps_pos_2 |-> None, gps_pos_acc |-> None,
   state |-> "None", reset_reason |-> "None", logging_rate |-> "Slow",
   recovery_sensing |-> None, nav_pos_l1h |-> None,
   baro_temperature |-> "None", baro_pressure |-> "None"]

SetResetReason(d, reset) == [d EXCEPT !.reset_reason = reset]

\* the order in which take_sensors lists the slots in the array it returns
TakeOrder ==
  << "air", "ekf_nav_1", "ekf_nav_2", "ekf_nav_acc", "ekf_quat",
     "madgwick_quat", "imu_1", "imu_2", "utc_time", "gps_vel", "gps_vel_acc",
     "gps_pos_1", "gps_pos_2", "gps_pos_acc", "nav_pos_l1h",
     "recovery_sensing" >>

\* the array take_sensors returns
TakenArray(d) == [i \in 1..Len(TakeOrder) |-> d[TakeOrder[i]]]

\* a take_sensors that clones recovery_sensing instead of taking it
TakeSensorsKeepLast(d) ==
  [d EXCEPT !.air = None, !.ekf_nav_1 = None, !.ekf_nav_2 = None,
            !.ekf_nav_acc = None, !.ekf_quat = None, !.madgwick_quat = None,
            !.imu_1 = None, !.imu_2 = None, !.utc_time = None,
            !.gps_vel = None, !.gps_vel_acc = None, !.gps_pos_1 = None,
            !.gps_pos_2 = None, !.gps_pos_acc = None, !.nav_pos_l1h = None]

\* the DataManager after take_sensors: Option::take leaves None in each slot
TakeSensors(d) ==
  [d EXCEPT !.air = None, !.ekf_nav_1 = None, !.ekf_nav_2 = None,
            !.ekf_nav_acc = None, !.ekf_quat = None, !.madgwick_quat = None,
            !.imu_1 = None, !.imu_2 = None, !.utc_time = None,
            !.gps_vel = None, !.gps_vel_acc = None, !.gps_pos_1 = None,
            !.gps_pos_2 = None, !.gps_pos_acc = None, !.nav_pos_l1h = None,
            !.recovery_sensing = None]

\* logging_rate.take(): the Option is left None until the value is put back
LoggingRateTake(d) == [d EXCEPT !.logging_rate = "None"]

\* a get_logging_rate that forgets to store the rate again
LoggingRatePutSkipped(d, rate) == d

\* self.logging_rate = Some(rate)
LoggingRatePut(d, rate) == [d EXCEPT !.logging_rate = rate]

\* the rate get_logging_rate returns: the stored one, Slow when none is stored
LoggingRateOrSlow(d) == IF d.logging_rate # "None" THEN d.logging_rate ELSE "Slow"

\* a get_logging_rate that returns the stored rate and stores Slow
GetLoggingRateResets(d) ==
  [rate |-> LoggingRateOrSlow(d),
   dm |-> LoggingRatePut(LoggingRateTake(d), "Slow")]

\* get_logging_rate: the returned rate and the DataManager it leaves
GetLoggingRate(d) ==
  [rate |-> LoggingRateOrSlow(d),
   dm |-> LoggingRatePut(LoggingRateTake(d), LoggingRateOrSlow(d))]

\* the rate a RadioRateChange command carries
RateOf(a) == IF a = "RateFast" THEN "Fast" ELSE "Slow"

\* a handle_command whose arm for the other commands sets the rate to Fast
HandleCommandOtherSetsFast(d, m) ==
  IF m.kind = "Command" /\ m.arg \in {"RateFast", "RateSlow"}
    THEN [d EXCEPT !.logging_rate = RateOf(m.arg)]
    ELSE IF m.kind = "Command" /\ m.arg # "PowerDown"
      THEN [d EXCEPT !.logging_rate = "Fast"]
      ELSE d

\* handle_command: the DataManager it leaves; it returns Ok(()) on every path
HandleCommand(d, m) ==
  IF m.kind = "Command" /\ m.arg \in {"RateFast", "RateSlow"}
    THEN [d EXCEPT !.logging_rate = RateOf(m.arg)]
    ELSE d

\* handle_command: what it returns
HandleCommandResult(m) == "Ok"

\* handle_command: whether it calls sleep_system::spawn()
HandleCommandSpawnsSleep(m) == m.kind = "Command" /\ m.arg = "PowerDown"

\* a handle_data that keeps the envelope already pending in a slot
HandleDataKeepFirst(d, m) ==
  LET put(f) == IF d[f] = None THEN [d EXCEPT ![f] = m] ELSE d IN
  CASE m.kind = "EkfNavAcc" -> put("ekf_nav_acc")
    [] m.kind = "GpsPosAcc" -> put("gps_pos_acc")
    [] m.kind = "Air" -> put("air")
    [] m.kind = "EkfNav1" -> put("ekf_nav_1")
    [] m.kind = "EkfNav2" -> put("ekf_nav_2")
    [] m.kind = "EkfQuat" -> put("ekf_quat")
    [] m.kind = "GpsVel" -> put("gps_vel")
    [] m.kind = "GpsVelAcc" -> put("gps_vel_acc")
    [] m.kind = "Imu1" -> put("imu_1")
    [] m.kind = "Imu2" -> put("imu_2")
    [] m.kind = "UtcTime" -> put("utc_time")
    [] m.kind = "GpsPos1" -> put("gps_pos_1")
    [] m.kind = "GpsPos2" -> put("gps_pos_2")
    [] m.kind = "RecoverySensing" -> put("recovery_sensing")
    [] m.kind = "NavPosLlh" -> put("nav_pos_l1h")
    [] m.kind = "State" -> [d EXCEPT !.state = m.arg]
    [] OTHER -> d

\* a handle_data whose ResetReason arm records that a reset was reported
HandleDataStoresResetReason(d, m) ==
  CASE m.kind = "EkfNavAcc" -> [d EXCEPT !.ekf_nav_acc = m]
    [] m.kind = "GpsPosAcc" -> [d EXCEPT !.gps_pos_acc = m]
    [] m.kind = "Air" -> [d EXCEPT !.air = m]
    [] m.kind = "EkfNav1" -> [d EXCEPT !.ekf_nav_1 = m]
    [] m.kind = "EkfNav2" -> [d EXCEPT !.ekf_nav_2 = m]
    [] m.kind = "EkfQuat" -> [d EXCEPT !.ekf_quat = m]
    [] m.kind = "GpsVel" -> [d EXCEPT !.gps_vel = m]
    [] m.kind = "GpsVelAcc" -> [d EXCEPT !.gps_vel_acc = m]
    [] m.kind = "Imu1" -> [d EXCEPT !.imu_1 = m]
    [] m.kind = "Imu2" -> [d EXCEPT !.imu_2 = m]
    [] m.kind = "UtcTime" -> [d EXCEPT !.utc_time = m]
    [] m.kind = "GpsPos1" -> [d EXCEPT !.gps_pos_1 = m]
    [] m.kind = "GpsPos2" -> [d EXCEPT !.gps_pos_2 = m]
    [] m.kind = "RecoverySensing" -> [d EXCEPT !.recovery_sensing = m]
    [] m.kind = "NavPosLlh" -> [d EXCEPT !.nav_pos_l1h = m]
    [] m.kind = "ResetReason" -> [d EXCEPT !.reset_reason = "Reported"]
    [] m.kind = "State" -> [d EXCEPT !.state = m.arg]
    [] OTHER -> d

\* handle_data: one match arm per payload kind, each overwriting its slot
HandleData(d, m) ==
  CASE m.kind = "EkfNavAcc" -> [d EXCEPT !.ekf_nav_acc = m]
    [] m.kind = "GpsPosAcc" -> [d EXCEPT !.gps_pos_acc = m]
    [] m.kind = "Air" -> [d EXCEPT !.air = m]
    [] m.kind = "EkfNav1" -> [d EXCEPT !.ekf_nav_1 = m]
    [] m.kind = "EkfNav2" -> [d EXCEPT !.ekf_nav_2 = m]
    [] m.kind = "EkfQuat" -> [d EXCEPT !.ekf_quat = m]
    [] m.kind = "GpsVel" -> [d EXCEPT !.gps_vel = m]
    [] m.kind = "GpsVelAcc" -> [d EXCEPT !.gps_vel_acc = m]
    [] m.kind = "Imu1" -> [d EXCEPT !.imu_1 = m]
    [] m.kind = "Imu2" -> [d EXCEPT !.imu_2 = m]
    [] m.kind = "UtcTime" -> [d EXCEPT !.utc_time = m]
    [] m.kind = "GpsPos1" -> [d EXCEPT !.gps_pos_1 = m]
    [] m.kind = "GpsPos2" -> [d EXCEPT !.gps_pos_2 = m]
    [] m.kind = "RecoverySensing" -> [d EXCEPT !.recovery_sensing = m]
    [] m.kind = "NavPosLlh" -> [d EXCEPT !.nav_pos_l1h = m]
    [] m.kind = "State" -> [d EXCEPT !.state = m.arg]
    [] OTHER -> d

StoreMadgwickResult(d, result) == [d EXCEPT !.madgwick_quat = result]

(***************************************************************************)
(* State                                                                   *)
(***************************************************************************)
VARIABLES
  dm,         \* the DataManager (shared resource data_manager)
  em,         \* ErrorManager: the fault flag
  pc,         \* position of every task in its body
  rq,         \* per priority level, the dispatcher's queue of ready software tasks
  pend,       \* hardware tasks whose interrupt is pending
  stack,      \* tasks on the processor, the running one last (preemption stack)
  inside,     \* per shared resource, the tasks inside a lock closure on it
  loc,        \* local variables of the task bodies
  gsMsg,      \* the envelope send_gs was spawned with
  sbgPower,   \* level of the SBG power enable line (sbg_power)
  madgwick,   \* MadgwickService: the latest quaternion, by the sample it came from
  cmdFifo,    \* receive FIFO 0 of the command CAN controller (FDCAN1)
  dataFifo,   \* receive FIFO 0 of the data CAN controller (FDCAN2)
  frames,     \* frames arrived so far, per bus
  opCount,    \* DataManager calls made so far (SpecDM)
  lastOp,     \* the latest DataManager call
  taken,      \* the array the latest take_sensors returned
  prevTaken,  \* the array the take_sensors before that returned
  lastRate,   \* the rate the latest get_logging_rate returned
  latest,     \* history: per payload kind, the latest envelope handled since the last take
  expected,   \* history: latest, as it was when take_sensors was last called
  untouched,  \* history: a take_sensors happened and no slot was written since
  cleanTake,  \* history: untouched, as it was when take_sensors was last called
  lost,       \* history: envelopes overwritten in their slot before any take
  cmd,        \* history: the latest handle_command, its input, request and result
  cmdRate,    \* history: rate of the latest RadioRateChange handled (Slow before any)
  decoded,    \* history: per payload kind, the latest envelope can_data received
  handed,     \* history: envelopes handed to send_gs by a successful spawn
  okAfterFault, \* history: an em.run whose operation returned Ok found the flag set
  radio,      \* the RadioManager, the serial link of the radio, and the history of both
  cmdTx,      \* envelopes CanCommandManager::send_message transmitted on the command bus
  ms,         \* the Ms5611 driver under construction or in use, and its SPI bus
  sbg,        \* a log record of the SBG device and the sensor sample made from it
  mwsvc,      \* a MadgwickService with its filter, and the history of its latest call
  canmgr,     \* a CanManager: the frames it transmitted and its latest send_message
  bus,        \* the chip select of the Ms5611 and the bus events of the driver's latest call
  calc,       \* the latest call of calculate_compensated_values, its locals in 64 bits
  canrx       \* the receive buffer of CanManager::process_data and the latest frame

dmHist ==
  <<opCount, lastOp, taken, prevTaken, lastRate, latest, expected, untouched,
    cleanTake, lost, cmd>>

sched ==
  <<em, okAfterFault, pc, rq, pend, stack, inside, loc, gsMsg, sbgPower, madgwick>>

canEnv == <<cmdFifo, dataFifo, frames>>

hist == <<cmdRate, decoded, handed>>

\* the units exercised on their own
units == <<sbg, mwsvc, canmgr, bus, calc, canrx>>

periph == <<radio, cmdTx, ms, units>>

vars == <<dm, dmHist, sched, canEnv, hist, periph>>

(***************************************************************************)
(* The RTIC application: tasks, priorities, resources (main.rs)            *)
(***************************************************************************)
HwTasks == {"can_command", "can_data"}

SwTasks ==
  {"baro_read", "generate_random_messages", "reset_reason_send", "state_send",
   "sensor_send", "send_gs_intermediate", "sbg_power_on", "send_gs",
   "send_data_internal", "send_command_internal", "blink", "sleep_system"}

Tasks == HwTasks \cup SwTasks

Resources ==
  {"data_manager", "madgwick_service", "radio_manager", "can_command_manager",
   "can_data_manager", "sbg_power", "rtc"}

\* the priority argument of each #[task]; a task without one has priority 0
Priority(t) ==
  CASE t \in {"can_command", "send_data_internal", "send_command_internal"} -> 2
    [] t = "blink" -> 1
    [] t = "state_send" -> 0
    [] OTHER -> 3

\* the tasks whose #[task(shared = [...])] names the resource
Users(r) ==
  CASE r = "data_manager" ->
         {"baro_read", "reset_reason_send", "state_send", "sensor_send",
          "can_command", "can_data", "send_data_internal", "send_command_internal"}
    [] r = "madgwick_service" -> {"can_data"}
    [] r = "radio_manager" -> {"send_gs"}
    [] r = "can_command_manager" -> {"can_command", "send_command_internal"}
    [] r = "can_data_manager" -> {"can_data", "send_data_internal"}
    [] r = "sbg_power" -> {"sbg_power_on", "sleep_system"}
    [] r = "rtc" ->
         {"generate_random_messages", "reset_reason_send", "state_send",
          "send_gs_intermediate"}

MaxOf(S) == CHOOSE x \in S : \A y \in S : y <= x

\* a ceiling taken as the lowest priority of the users instead of the highest
CeilingLowest(r) ==
  CHOOSE x \in {Priority(t) : t \in Users(r)} : \A u \in Users(r) : x <= Priority(u)

\* the priority ceiling RTIC computes for a resource
Ceiling(r) == MaxOf({Priority(t) : t \in Users(r)})

\* Ceiling, tabulated
CeilingOf == [r \in Resources |-> Ceiling(r)]

\* the priority the processor runs at: that of the running task (nothing
\* running: below every task), raised to the ceiling of every held resource
CurPrio ==
  MaxOf({-1} \cup {Priority(stack[i]) : i \in 1..Len(stack)}
             \cup {CeilingOf[r] : r \in {x \in Resources : inside[x] # {}}})

Top == stack[Len(stack)]

\* the tasks asking for the processor: a pending interrupt, or the head of
\* the ready queue of a level
Ready == pend \cup {Head(rq[p]) : p \in {q \in 0..3 : rq[q] # <<>>}}

\* a processor that lets a ready task preempt a task of its own level
DispatchableAtEqual(t) ==
  /\ t \in Ready
  /\ Priority(t) >= CurPrio
  /\ \A u \in Ready : Priority(u) <= Priority(t)

\* t can take the processor now: it is ready, its priority exceeds the
\* current one, and no ready task has a higher one
Dispatchable(t) ==
  /\ t \in Ready
  /\ Priority(t) > CurPrio
  /\ \A u \in Ready : Priority(u) <= Priority(t)

\* t is the running task and nothing preempts it
Running(t) ==
  /\ stack # <<>>
  /\ Top = t
  /\ \A u \in Ready : ~ Dispatchable(u)

OnStack(t) == \E i \in 1..Len(stack) : stack[i] = t

Popped == SubSeq(stack, 1, Len(stack) - 1)

Entered(t, r) == [inside EXCEPT ![r] = @ \cup {t}]

Left(t, r) == [inside EXCEPT ![r] = @ \ {t}]

\* rq after a successful Task::spawn() / a waker firing
Enqueued(q, t) == [q EXCEPT ![Priority(t)] = Append(@, t)]

(***************************************************************************)
(* SpecDM: the DataManager called through its API, one call per step       *)
(***************************************************************************)
AllNone == [i \in 1..Len(TakeOrder) |-> None]

\* the history key of an envelope: its payload kind
NoLatest == [k \in SensorKinds \cup {"State", "Command", "Madgwick"} |-> None]

\* envelope kinds the data bus delivers
DataKinds == {"Imu", "Air"}

NoneDecoded == [k \in DataKinds |-> None]

ResetReasons == {"PowerOnReset"}

\* phoenix/src/main.rs init: lines 336-343 and the values it returns
InitDM ==
  /\ dm \in {SetResetReason(DataManagerNew, r) : r \in ResetReasons}
  /\ opCount = 0
  /\ lastOp = "none"
  /\ taken = AllNone
  /\ prevTaken = AllNone
  /\ lost = {}
  /\ lastRate = "None"
  /\ cmd = [msg |-> None, spawns |-> FALSE, result |-> "none"]
  /\ latest = NoLatest
  /\ expected = NoLatest
  /\ untouched = FALSE
  /\ cleanTake = FALSE
  /\ cmdRate = "Slow"

\* the spawn calls of init, in order
SpawnOrder ==
  <<"blink", "send_data_internal", "reset_reason_send", "state_send", "baro_read">>

\* the state init leaves, q being the frames FDCAN1 accepted into FIFO 0
\* between can.into_normal() and the end of init
InitSchedWith(spawned, q) ==
  /\ em = FALSE
  /\ okAfterFault = FALSE
  /\ pc = [t \in Tasks |->
            IF \E i \in 1..Len(spawned) : spawned[i] = t
              THEN "start" ELSE "idle"]
  /\ rq = [p \in 0..3 |-> SelectSeq(spawned, LAMBDA t : Priority(t) = p)]
  /\ pend = IF q = <<>> THEN {} ELSE {"can_command"}
  /\ stack = <<>>
  /\ inside = [r \in Resources |-> {}]
  /\ loc = [baro |-> "None", cdMsg |-> None, cdRes |-> None,
            ssTaken |-> AllNone, ssRate |-> "None", reason |-> "None"]
  /\ gsMsg = None
  /\ sbgPower = TRUE
  /\ madgwick = [latest_quat |-> 0]
  /\ cmdFifo = q
  /\ dataFifo = <<>>
  /\ frames = [cmd |-> Len(q), data |-> 0, dropped |-> 0]
  /\ decoded = NoneDecoded
  /\ handed = {}

InitSchedOf(spawned) == InitSchedWith(spawned, <<>>)

InitSched == InitSchedOf(SpawnOrder)

\* RadioManager::new: the sequence counter starts at 0; nothing was sent or
\* received yet
RadioManagerNew ==
  [mav_sequence |-> 0,
   frame |-> None,    \* history: the frame the latest send_message built
   prevSeq |-> -1,    \* history: the sequence of the frame before it (-1: none)
   wire |-> None,     \* history: the frame the latest send_gs put on the link
   last |-> [len |-> 0, link |-> "Ok", result |-> "none", flagBefore |-> FALSE],
                      \* history: the latest send_gs
   rx |-> <<>>,       \* frames on the link not yet read
   arrived |-> 0,
   got |-> None]      \* history: what the latest receive_message returned

\* no log record was received from the SBG device
SbgIdle == [log |-> [kind |-> "None"], sample |-> [kind |-> "None"]]

\* the MadgwickService is not looked at
MwIdle == [svc |-> "-", calls |-> 0]

\* no CanManager is looked at
CanIdle == [can |-> "-", calls |-> 0]

\* process_data is not looked at byte by byte
CanRxIdle == [frames |-> 0]

\* calculate_compensated_values was not called
CalcIdle == [calls |-> 0]

\* no transaction of the Ms5611 bus is looked at
BusIdle == [cs |-> "high", calls |-> 0]

\* the peripherals the scheduling model leaves alone
InitPeriph ==
  /\ radio = RadioManagerNew
  /\ cmdTx = {}
  /\ ms = [phase |-> "ready"]   \* Ms5611::new(..).unwrap() returned
  /\ sbg = SbgIdle
  /\ mwsvc = MwIdle
  /\ canmgr = CanIdle
  /\ bus = BusIdle
  /\ calc = CalcIdle
  /\ canrx = CanRxIdle

Init == InitDM /\ InitSched /\ InitPeriph

DmCall(op) ==
  /\ opCount < MaxOps
  /\ opCount' = opCount + 1
  /\ lastOp' = op
  /\ UNCHANGED <<sched, canEnv, decoded, handed, periph>>

DmHandleData ==
  \E m \in Envelopes :
    /\ DmCall("handle_data")
    /\ dm' = HandleData(dm, m)
    /\ latest' = [latest EXCEPT ![m.kind] = m]
    /\ lost' = IF latest[m.kind] # None THEN lost \cup {latest[m.kind]} ELSE lost
    /\ untouched' = FALSE
    /\ UNCHANGED <<taken, prevTaken, lastRate, expected, cleanTake, cmdRate, cmd>>

DmStoreMadgwickResult ==
  \E s \in Stamps :
    /\ DmCall("store_madgwick_result")
    /\ dm' = StoreMadgwickResult(dm, Env("EkfQuat", s, "-"))
    /\ latest' = [latest EXCEPT !["Madgwick"] = Env("EkfQuat", s, "-")]
    /\ lost' = IF latest["Madgwick"] # None THEN lost \cup {latest["Madgwick"]} ELSE lost
    /\ untouched' = FALSE
    /\ UNCHANGED <<taken, prevTaken, lastRate, expected, cleanTake, cmdRate, cmd>>

DmHandleCommand ==
  \E m \in CommandEnvelopes \cup {Env("Air", 1, "-")} :
    /\ DmCall("handle_command")
    /\ dm' = HandleCommand(dm, m)
    /\ cmd' = [msg |-> m, spawns |-> HandleCommandSpawnsSleep(m),
               result |-> HandleCommandResult(m)]
    /\ cmdRate' = IF m.arg \in {"RateFast", "RateSlow"} THEN RateOf(m.arg) ELSE cmdRate
    /\ UNCHANGED <<taken, prevTaken, lastRate, latest, expected, untouched, cleanTake, lost>>

DmTakeSensors ==
  /\ DmCall("take_sensors")
  /\ taken' = TakenArray(dm)
  /\ prevTaken' = taken
  /\ dm' = TakeSensors(dm)
  /\ expected' = latest
  /\ latest' = NoLatest
  /\ cleanTake' = untouched
  /\ untouched' = TRUE
  /\ UNCHANGED <<lastRate, cmdRate, lost, cmd>>

DmGetLoggingRate ==
  /\ DmCall("get_logging_rate")
  /\ lastRate' = GetLoggingRate(dm).rate
  /\ dm' = GetLoggingRate(dm).dm
  /\ UNCHANGED <<taken, prevTaken, latest, expected, untouched, cleanTake, cmdRate, lost, cmd>>

NextDM ==
  \/ DmHandleData
  \/ DmStoreMadgwickResult
  \/ DmHandleCommand
  \/ DmTakeSensors
  \/ DmGetLoggingRate

SpecDM == Init /\ [][NextDM]_vars

(***************************************************************************)
(* Collaborators outside phoenix/src                                       *)
(***************************************************************************)
\* an ErrorManager whose run() resets the flag when the operation succeeds
EmRunClearing(flag, result) == result = "Err"

\* ErrorManager::run: the flag after an operation that returned `result`
EmRun(flag, result) == IF result = "Err" THEN TRUE ELSE flag

\* em.run(operation) as a step: the flag, and the history of it
EmRan(result) ==
  /\ em' = EmRun(em, result)
  /\ okAfterFault' = (okAfterFault \/ (em /\ result = "Ok"))

\* ErrorManager::has_error
HasError == em

\* bytes on the bus that are no encoding of an envelope
Garbage == [kind |-> "Garbage", stamp |-> 0, arg |-> "-"]

\* postcard::from_bytes::<CanMessage>(..).is_ok()
Decodes(f) == f # Garbage

RECURSIVE DropUndecodable(_)
DropUndecodable(q) ==
  IF q = <<>> \/ Decodes(Head(q)) THEN q ELSE DropUndecodable(Tail(q))

\* CanDataManager::receive_message: the next frame of the FIFO that decodes
\* (None when there is none left), frames that do not decode being discarded
ReceiveMessage(q) ==
  LET r == DropUndecodable(q) IN
  IF r = <<>> THEN [msg |-> None, rest |-> <<>>]
              ELSE [msg |-> Head(r), rest |-> Tail(r)]

\* Sender handles of the channel of send_data_internal alive after init: the
\* only one, _s, is dropped when init returns
ChannelSenders == 0

\* Receiver::recv on the (always empty) channel: an error at once when no
\* sender is left, otherwise the task is suspended
RecvResult == IF ChannelSenders = 0 THEN "NoSender" ELSE "Pending"

(***************************************************************************)
(* MadgwickService                                                         *)
(***************************************************************************)
\* process_imu_data: the envelope it returns (None for Option::None) and the
\* service it leaves
ProcessImuData(mw, m) ==
  IF m.kind = "Imu" /\ m.arg = "full"
    THEN [out |-> Env("EkfQuat", m.stamp, "-"), mw |-> [mw EXCEPT !.latest_quat = m.stamp]]
    ELSE [out |-> None, mw |-> mw]

(***************************************************************************)
(* Environment: the two CAN buses and the monotonic timer                  *)
(***************************************************************************)
CmdFrames ==
  {Env("Command", 1, a) : a \in {"PowerDown", "RateFast", "RateSlow"}} \cup {Garbage}

DataFrames ==
  {Env("Imu", 1, "full"), Env("Air", 1, "-"), Garbage}

\* a frame is accepted into FIFO 0 of FDCAN1 and raises FDCAN1_IT0
CmdFrameArrive ==
  \E f \in CmdFrames :
    /\ frames.cmd < MaxCmdFrames
    /\ Len(cmdFifo) < FifoCap
    /\ cmdFifo' = Append(cmdFifo, f)
    /\ frames' = [frames EXCEPT !.cmd = @ + 1]
    /\ pend' = pend \cup {"can_command"}
    /\ UNCHANGED <<dm, dmHist, periph, hist, dataFifo>>
    /\ UNCHANGED <<em, okAfterFault, pc, rq, stack, inside, loc, gsMsg, sbgPower, madgwick>>

\* a frame is accepted into FIFO 0 of FDCAN2 and raises FDCAN2_IT0
DataFrameArrive ==
  \E f \in DataFrames :
    /\ frames.data < MaxDataFrames
    /\ Len(dataFifo) < FifoCap
    /\ dataFifo' = Append(dataFifo, f)
    /\ frames' = [frames EXCEPT !.data = @ + 1]
    /\ pend' = pend \cup {"can_data"}
    /\ UNCHANGED <<dm, dmHist, periph, hist, cmdFifo>>
    /\ UNCHANGED <<em, okAfterFault, pc, rq, stack, inside, loc, gsMsg, sbgPower, madgwick>>

\* Mono::delay(..).await completes: the task is made ready again
TimerExpire ==
  \E t \in SwTasks :
    /\ pc[t] = "delay"
    /\ pc' = [pc EXCEPT ![t] = "start"]
    /\ rq' = Enqueued(rq, t)
    /\ UNCHANGED <<dm, dmHist, periph, hist, canEnv>>
    /\ UNCHANGED <<em, okAfterFault, pend, stack, inside, loc, gsMsg, sbgPower, madgwick>>

(***************************************************************************)
(* Scheduling                                                              *)
(***************************************************************************)
\* the interrupt controller starts the handler of a pending interrupt, or the
\* dispatcher of a level polls the task at the head of its queue
DispatchTask(t) ==
  /\ Dispatchable(t)
  /\ stack' = Append(stack, t)
  /\ IF t \in HwTasks
       THEN /\ pend' = pend \ {t}
            /\ pc' = [pc EXCEPT ![t] = "start"]
            /\ rq' = rq
       ELSE /\ rq' = [rq EXCEPT ![Priority(t)] = Tail(@)]
            /\ UNCHANGED <<pend, pc>>
  /\ UNCHANGED <<dm, dmHist, periph, hist, canEnv>>
  /\ UNCHANGED <<em, okAfterFault, inside, loc, gsMsg, sbgPower, madgwick>>

Dispatch == \E t \in Tasks : DispatchTask(t)

\* t moves from position `from` to position `to`, staying on the processor
Goes(t, from, to) ==
  /\ pc[t] = from
  /\ Running(t)
  /\ pc' = [pc EXCEPT ![t] = to]

\* t enters the closure of resource.lock(..)
LockStep(t, from, r, to) ==
  /\ Goes(t, from, to)
  /\ inside' = Entered(t, r)
  /\ UNCHANGED <<dm, dmHist, periph, hist, canEnv>>
  /\ UNCHANGED <<em, okAfterFault, rq, pend, stack, loc, gsMsg, sbgPower, madgwick>>

(***************************************************************************)
(* baro_read (priority 3)                                                  *)
(***************************************************************************)
BaroReadings == {"reading1"}

\* baro.read_pressure_temperature(osr): Ok((temp, press)) or Err(e)
BaroRead ==
  \E res \in BaroReadings \cup {"Err"} :
    /\ Goes("baro_read", "start", "store")
    /\ loc' = [loc EXCEPT !.baro = res]
    /\ UNCHANGED <<dm, dmHist, periph, hist, canEnv>>
    /\ UNCHANGED <<em, okAfterFault, rq, pend, stack, inside, gsMsg, sbgPower, madgwick>>

BaroLock == LockStep("baro_read", "store", "data_manager", "in_dm")

\* a baro_read in which the driver error is unwrapped instead of being
\* handed to the ErrorManager: the panic handler stops the processor
BaroStorePanics ==
  /\ pc["baro_read"] = "in_dm"
  /\ Running("baro_read")
  /\ IF loc.baro = "Err"
       THEN /\ pc' = [pc EXCEPT !["baro_read"] = "panicked"]
            /\ UNCHANGED <<dm, em, okAfterFault, stack, inside>>
       ELSE /\ pc' = [pc EXCEPT !["baro_read"] = "delay"]
            /\ dm' = [dm EXCEPT !.baro_temperature = loc.baro,
                                !.baro_pressure = loc.baro]
            /\ inside' = Left("baro_read", "data_manager")
            /\ stack' = Popped
            /\ UNCHANGED <<em, okAfterFault>>
  /\ loc' = IF loc.baro = "Err" THEN loc ELSE [loc EXCEPT !.baro = "None"]
  /\ UNCHANGED <<dmHist, periph, hist, canEnv>>
  /\ UNCHANGED <<rq, pend, gsMsg, sbgPower, madgwick>>

\* a baro_read that reaches its delay from inside the closure of the lock
BaroStoreKeepsLock ==
  /\ pc["baro_read"] = "in_dm"
  /\ Running("baro_read")
  /\ pc' = [pc EXCEPT !["baro_read"] = "delay"]
  /\ dm' = IF loc.baro = "Err"
             THEN [dm EXCEPT !.baro_temperature = "None", !.baro_pressure = "None"]
             ELSE [dm EXCEPT !.baro_temperature = loc.baro,
                             !.baro_pressure = loc.baro]
  /\ inside' = inside
  /\ EmRan(IF loc.baro = "Err" THEN "Err" ELSE "Ok")
  /\ stack' = Popped
  /\ loc' = [loc EXCEPT !.baro = "None"]
  /\ UNCHANGED <<dmHist, periph, hist, canEnv>>
  /\ UNCHANGED <<rq, pend, gsMsg, sbgPower, madgwick>>

\* a baro_read whose Err arm reports the fault and leaves the two fields
\* as they are
BaroStoreKeepsOnError ==
  /\ pc["baro_read"] = "in_dm"
  /\ Running("baro_read")
  /\ pc' = [pc EXCEPT !["baro_read"] = "delay"]
  /\ dm' = IF loc.baro = "Err"
             THEN dm
             ELSE [dm EXCEPT !.baro_temperature = loc.baro,
                             !.baro_pressure = loc.baro]
  /\ inside' = Left("baro_read", "data_manager")
  /\ EmRan(IF loc.baro = "Err" THEN "Err" ELSE "Ok")
  /\ stack' = Popped
  /\ loc' = [loc EXCEPT !.baro = "None"]
  /\ UNCHANGED <<dmHist, periph, hist, canEnv>>
  /\ UNCHANGED <<rq, pend, gsMsg, sbgPower, madgwick>>

\* a baro_read whose Ok arm stores the temperature and leaves the pressure
\* to a later critical section
BaroStoreTemperatureOnly ==
  /\ pc["baro_read"] = "in_dm"
  /\ Running("baro_read")
  /\ pc' = [pc EXCEPT !["baro_read"] = "delay"]
  /\ dm' = IF loc.baro = "Err"
             THEN [dm EXCEPT !.baro_temperature = "None", !.baro_pressure = "None"]
             ELSE [dm EXCEPT !.baro_temperature = loc.baro]
  /\ inside' = Left("baro_read", "data_manager")
  /\ EmRan(IF loc.baro = "Err" THEN "Err" ELSE "Ok")
  /\ stack' = Popped
  /\ loc' = [loc EXCEPT !.baro = "None"]
  /\ UNCHANGED <<dmHist, periph, hist, canEnv>>
  /\ UNCHANGED <<rq, pend, gsMsg, sbgPower, madgwick>>

\* both match arms: the two fields are written in one critical section, the
\* closure result goes to em.run, and the task awaits Mono::delay(1000 ms)
BaroStore ==
  /\ pc["baro_read"] = "in_dm"
  /\ Running("baro_read")
  /\ pc' = [pc EXCEPT !["baro_read"] = "delay"]
  /\ dm' = IF loc.baro = "Err"
             THEN [dm EXCEPT !.baro_temperature = "None", !.baro_pressure = "None"]
             ELSE [dm EXCEPT !.baro_temperature = loc.baro,
                             !.baro_pressure = loc.baro]
  /\ inside' = Left("baro_read", "data_manager")
  /\ EmRan(IF loc.baro = "Err" THEN "Err" ELSE "Ok")
  /\ stack' = Popped
  /\ loc' = [loc EXCEPT !.baro = "None"]
  /\ UNCHANGED <<dmHist, periph, hist, canEnv>>
  /\ UNCHANGED <<rq, pend, gsMsg, sbgPower, madgwick>>

(***************************************************************************)
(* reset_reason_send (priority 3) and send_gs (priority 3)                 *)
(***************************************************************************)
RrsLock == LockStep("reset_reason_send", "start", "data_manager", "in_dm")

\* clone_reset_reason, then the match on it
RrsClone ==
  /\ pc["reset_reason_send"] = "in_dm"
  /\ Running("reset_reason_send")
  /\ loc' = [loc EXCEPT !.reason = dm.reset_reason]
  /\ inside' = Left("reset_reason_send", "data_manager")
  /\ IF dm.reset_reason = "None"
       THEN /\ pc' = [pc EXCEPT !["reset_reason_send"] = "idle"]
            /\ stack' = Popped
       ELSE /\ pc' = [pc EXCEPT !["reset_reason_send"] = "lock_rtc"]
            /\ stack' = stack
  /\ UNCHANGED <<dm, dmHist, periph, hist, canEnv>>
  /\ UNCHANGED <<em, okAfterFault, rq, pend, gsMsg, sbgPower, madgwick>>

RrsRtcLock == LockStep("reset_reason_send", "lock_rtc", "rtc", "in_rtc")

\* Message::new(..), then em.run(|| spawn!(send_gs, message)); the task ends
RrsSpawn ==
  LET m == Env("ResetReason", 1, "-") IN
  /\ pc["reset_reason_send"] = "in_rtc"
  /\ Running("reset_reason_send")
  /\ inside' = Left("reset_reason_send", "rtc")
  /\ stack' = Popped
  /\ IF pc["send_gs"] = "idle"
       THEN /\ pc' = [pc EXCEPT !["reset_reason_send"] = "idle", !["send_gs"] = "start"]
            /\ rq' = Enqueued(rq, "send_gs")
            /\ gsMsg' = m
            /\ handed' = handed \cup {m}
            /\ EmRan("Ok")
       ELSE /\ pc' = [pc EXCEPT !["reset_reason_send"] = "idle"]
            /\ EmRan("Err")
            /\ UNCHANGED <<rq, gsMsg, handed>>
  /\ loc' = [loc EXCEPT !.reason = "None"]
  /\ UNCHANGED <<dm, dmHist, periph, cmdRate, decoded, canEnv>>
  /\ UNCHANGED <<pend, sbgPower, madgwick>>

GsLock == LockStep("send_gs", "start", "radio_manager", "in_radio")

\* postcard::to_slice and radio_manager.send_message inside em.run: either
\* may fail; the task ends
GsSend ==
  \E result \in {"Ok", "Err"} :
    /\ pc["send_gs"] = "in_radio"
    /\ Running("send_gs")
    /\ pc' = [pc EXCEPT !["send_gs"] = "idle"]
    /\ inside' = Left("send_gs", "radio_manager")
    /\ EmRan(result)
    /\ gsMsg' = None
    /\ stack' = Popped
    /\ UNCHANGED <<dm, dmHist, periph, hist, canEnv>>
    /\ UNCHANGED <<rq, pend, loc, sbgPower, madgwick>>

(***************************************************************************)
(* can_data (priority 3, bound to FDCAN2_IT0)                              *)
(***************************************************************************)
CdLock == LockStep("can_data", "start", "can_data_manager", "recv")

\* while let Ok(Some(message)) = can.receive_message()
CdReceive ==
  LET r == ReceiveMessage(dataFifo) IN
  /\ r.msg # None
  /\ Goes("can_data", "recv", "madgwick")
  /\ dataFifo' = r.rest
  /\ loc' = [loc EXCEPT !.cdMsg = r.msg]
  /\ decoded' = [decoded EXCEPT ![r.msg.kind] = r.msg]
  /\ UNCHANGED <<dm, dmHist, periph, cmdRate, handed, cmdFifo, frames>>
  /\ UNCHANGED <<em, okAfterFault, rq, pend, stack, inside, gsMsg, sbgPower, madgwick>>

\* the loop ends, em.run(|| Ok(())), the handler returns
CdReturn ==
  LET r == ReceiveMessage(dataFifo) IN
  /\ r.msg = None
  /\ pc["can_data"] = "recv"
  /\ Running("can_data")
  /\ pc' = [pc EXCEPT !["can_data"] = "idle"]
  /\ dataFifo' = r.rest
  /\ inside' = Left("can_data", "can_data_manager")
  /\ EmRan("Ok")
  /\ stack' = Popped
  /\ UNCHANGED <<dm, dmHist, periph, hist, cmdFifo, frames>>
  /\ UNCHANGED <<rq, pend, loc, gsMsg, sbgPower, madgwick>>

CdMadgwickLock == LockStep("can_data", "madgwick", "madgwick_service", "process")

\* madgwick.process_imu_data(&message)
CdProcess ==
  LET r == ProcessImuData(madgwick, loc.cdMsg) IN
  /\ pc["can_data"] = "process"
  /\ Running("can_data")
  /\ madgwick' = r.mw
  /\ loc' = [loc EXCEPT !.cdMsg = None, !.cdRes = r.out]
  /\ IF r.out # None
       THEN /\ pc' = [pc EXCEPT !["can_data"] = "store"]
            /\ inside' = inside
       ELSE /\ pc' = [pc EXCEPT !["can_data"] = "recv"]
            /\ inside' = Left("can_data", "madgwick_service")
  /\ UNCHANGED <<dm, dmHist, periph, hist, canEnv>>
  /\ UNCHANGED <<em, okAfterFault, rq, pend, stack, gsMsg, sbgPower>>

CdStoreLock == LockStep("can_data", "store", "data_manager", "in_dm")

\* dm.store_madgwick_result(result); both closures end
CdStore ==
  /\ Goes("can_data", "in_dm", "recv")
  /\ dm' = StoreMadgwickResult(dm, loc.cdRes)
  /\ inside' = [inside EXCEPT !["data_manager"] = @ \ {"can_data"},
                              !["madgwick_service"] = @ \ {"can_data"}]
  /\ loc' = [loc EXCEPT !.cdRes = None]
  /\ UNCHANGED <<dmHist, periph, hist, canEnv>>
  /\ UNCHANGED <<em, okAfterFault, rq, pend, stack, gsMsg, sbgPower, madgwick>>

(***************************************************************************)
(* can_command (priority 2, bound to FDCAN1_IT0) and sleep_system          *)
(***************************************************************************)
CcLockCan == LockStep("can_command", "start", "can_command_manager", "lock_dm")

CcLockDm == LockStep("can_command", "lock_dm", "data_manager", "process")

\* a process_data that returns the decode error (from_bytes(&buf)?) instead
\* of going on to the next frame
CcFrameStopsOnError ==
  LET f == Head(cmdFifo)
      spawns == Decodes(f) /\ HandleCommandSpawnsSleep(f) /\ pc["sleep_system"] = "idle"
  IN
  /\ cmdFifo # <<>>
  /\ pc["can_command"] = "process"
  /\ Running("can_command")
  /\ cmdFifo' = Tail(cmdFifo)
  /\ dm' = IF Decodes(f) THEN HandleCommand(dm, f) ELSE dm
  /\ cmdRate' = IF f.kind = "Command" /\ f.arg \in {"RateFast", "RateSlow"}
                  THEN RateOf(f.arg) ELSE cmdRate
  /\ pc' = IF ~ Decodes(f) THEN [pc EXCEPT !["can_command"] = "exit_can"]
           ELSE IF spawns THEN [pc EXCEPT !["sleep_system"] = "start"] ELSE pc
  /\ rq' = IF spawns THEN Enqueued(rq, "sleep_system") ELSE rq
  /\ frames' = IF Decodes(f) THEN frames ELSE [frames EXCEPT !.dropped = @ + 1]
  /\ IF Decodes(f)
       THEN UNCHANGED <<em, okAfterFault, inside>>
       ELSE EmRan("Err") /\ inside' = Left("can_command", "data_manager")
  /\ UNCHANGED <<dmHist, periph, decoded, handed, dataFifo>>
  /\ UNCHANGED <<pend, stack, loc, gsMsg, sbgPower, madgwick>>

\* one turn of the loop of CanManager::process_data: receive0 gave a frame
CcFrame ==
  LET f == Head(cmdFifo)
      spawns == Decodes(f) /\ HandleCommandSpawnsSleep(f) /\ pc["sleep_system"] = "idle"
  IN
  /\ cmdFifo # <<>>
  /\ pc["can_command"] = "process"
  /\ Running("can_command")
  /\ cmdFifo' = Tail(cmdFifo)
  /\ dm' = IF Decodes(f) THEN HandleCommand(dm, f) ELSE dm
  /\ cmdRate' = IF f.kind = "Command" /\ f.arg \in {"RateFast", "RateSlow"}
                  THEN RateOf(f.arg) ELSE cmdRate
  /\ pc' = IF spawns THEN [pc EXCEPT !["sleep_system"] = "start"] ELSE pc
  /\ rq' = IF spawns THEN Enqueued(rq, "sleep_system") ELSE rq
  /\ frames' = IF Decodes(f) THEN frames ELSE [frames EXCEPT !.dropped = @ + 1]
  /\ UNCHANGED <<dmHist, periph, decoded, handed, dataFifo>>
  /\ UNCHANGED <<em, okAfterFault, pend, stack, inside, loc, gsMsg, sbgPower, madgwick>>

\* receive0 reports no frame: process_data returns Ok, the data_manager
\* closure ends
CcDrained ==
  /\ cmdFifo = <<>>
  /\ Goes("can_command", "process", "exit_can")
  /\ EmRan("Ok")
  /\ inside' = Left("can_command", "data_manager")
  /\ UNCHANGED <<dm, dmHist, periph, hist, canEnv>>
  /\ UNCHANGED <<rq, pend, stack, loc, gsMsg, sbgPower, madgwick>>

\* the can_command_manager closure ends and the handler returns
CcReturn ==
  /\ pc["can_command"] = "exit_can"
  /\ Running("can_command")
  /\ pc' = [pc EXCEPT !["can_command"] = "idle"]
  /\ inside' = Left("can_command", "can_command_manager")
  /\ stack' = Popped
  /\ UNCHANGED <<dm, dmHist, periph, hist, canEnv>>
  /\ UNCHANGED <<em, okAfterFault, rq, pend, loc, gsMsg, sbgPower, madgwick>>

SleepLock == LockStep("sleep_system", "start", "sbg_power", "in_sbg")

\* sbg.set_low(); the task ends
SleepSetLow ==
  /\ pc["sleep_system"] = "in_sbg"
  /\ Running("sleep_system")
  /\ pc' = [pc EXCEPT !["sleep_system"] = "idle"]
  /\ sbgPower' = FALSE
  /\ inside' = Left("sleep_system", "sbg_power")
  /\ stack' = Popped
  /\ UNCHANGED <<dm, dmHist, periph, hist, canEnv>>
  /\ UNCHANGED <<em, okAfterFault, rq, pend, loc, gsMsg, madgwick>>

(***************************************************************************)
(* send_data_internal (priority 2)                                         *)
(***************************************************************************)
\* one turn of the loop: receiver.recv().await gives Err(NoSender) at once,
\* `if let Ok(m)` does not match and the loop starts over; with a sender left
\* the task would be suspended instead
SdiRecv ==
  /\ pc["send_data_internal"] = "start"
  /\ Running("send_data_internal")
  /\ IF RecvResult = "NoSender"
       THEN UNCHANGED <<pc, stack>>
       ELSE /\ pc' = [pc EXCEPT !["send_data_internal"] = "recv_wait"]
            /\ stack' = Popped
  /\ UNCHANGED <<dm, dmHist, periph, hist, canEnv>>
  /\ UNCHANGED <<em, okAfterFault, rq, pend, inside, loc, gsMsg, sbgPower, madgwick>>

(***************************************************************************)
(* The application as init leaves it                                       *)
(***************************************************************************)
CpuStep ==
  \/ Dispatch
  \/ BaroRead \/ BaroLock \/ BaroStore
  \/ RrsLock \/ RrsClone \/ RrsRtcLock \/ RrsSpawn
  \/ GsLock \/ GsSend
  \/ CdLock \/ CdReceive \/ CdReturn \/ CdMadgwickLock \/ CdProcess
  \/ CdStoreLock \/ CdStore
  \/ CcLockCan \/ CcLockDm \/ CcFrame \/ CcDrained \/ CcReturn
  \/ SleepLock \/ SleepSetLow
  \/ SdiRecv

Next ==
  \/ CmdFrameArrive
  \/ DataFrameArrive
  \/ TimerExpire
  \/ CpuStep

Spec == Init /\ [][Next]_vars

CanCommandStep == CcLockCan \/ CcLockDm \/ CcFrame \/ CcDrained \/ CcReturn

\* the processor executes whenever something can run and every delay elapses;
\* a delay of 100 ms or more outlasts the handlers it wakes, so in between the
\* processor takes a pending interrupt of the same level and returns to the
\* interrupt handler below them
LiveSpec ==
  /\ Spec
  /\ WF_vars(CpuStep)
  /\ WF_vars(TimerExpire)
  /\ SF_vars(CanCommandStep)
  /\ \A t \in HwTasks : SF_vars(DispatchTask(t))

(***************************************************************************)
(* sensor_send (priority 3), and the application with its spawn enabled    *)
(***************************************************************************)
SsLock == LockStep("sensor_send", "start", "data_manager", "take")

\* data_manager.take_sensors()
SsTakeSensors ==
  /\ Goes("sensor_send", "take", "rate_take")
  /\ loc' = [loc EXCEPT !.ssTaken = TakenArray(dm)]
  /\ dm' = TakeSensors(dm)
  /\ UNCHANGED <<dmHist, periph, hist, canEnv>>
  /\ UNCHANGED <<em, okAfterFault, rq, pend, stack, inside, gsMsg, sbgPower, madgwick>>

\* get_logging_rate, up to self.logging_rate.take().unwrap_or(Slow)
SsRateTake ==
  /\ Goes("sensor_send", "rate_take", "rate_put")
  /\ loc' = [loc EXCEPT !.ssRate = LoggingRateOrSlow(dm)]
  /\ dm' = LoggingRateTake(dm)
  /\ UNCHANGED <<dmHist, periph, hist, canEnv>>
  /\ UNCHANGED <<em, okAfterFault, rq, pend, stack, inside, gsMsg, sbgPower, madgwick>>

\* get_logging_rate, from the put-back on; the closure ends
SsRatePut ==
  /\ Goes("sensor_send", "rate_put", "send")
  /\ dm' = LoggingRatePut(dm, loc.ssRate)
  /\ inside' = Left("sensor_send", "data_manager")
  /\ UNCHANGED <<dmHist, periph, hist, canEnv>>
  /\ UNCHANGED <<em, okAfterFault, rq, pend, stack, loc, gsMsg, sbgPower, madgwick>>

\* em.run over the taken array: send_gs is spawned with the first envelope,
\* `?` leaves the loop at the first spawn that fails (send_gs is still
\* spawned when a second envelope follows); then the delay the rate selects
SsSend ==
  LET some == SelectSeq(loc.ssTaken, LAMBDA m : m # None)
      spawns == some # <<>> /\ pc["send_gs"] = "idle"
  IN
  /\ pc["sensor_send"] = "send"
  /\ Running("sensor_send")
  /\ pc' = IF spawns
             THEN [pc EXCEPT !["sensor_send"] = "delay", !["send_gs"] = "start"]
             ELSE [pc EXCEPT !["sensor_send"] = "delay"]
  /\ rq' = IF spawns THEN Enqueued(rq, "send_gs") ELSE rq
  /\ gsMsg' = IF spawns THEN Head(some) ELSE gsMsg
  /\ handed' = IF spawns THEN handed \cup {Head(some)} ELSE handed
  /\ EmRan(IF some = <<>> \/ (spawns /\ Len(some) = 1) THEN "Ok" ELSE "Err")
  /\ loc' = [loc EXCEPT !.ssTaken = AllNone, !.ssRate = "None"]
  /\ stack' = Popped
  /\ UNCHANGED <<dm, dmHist, periph, cmdRate, decoded, canEnv>>
  /\ UNCHANGED <<pend, inside, sbgPower, madgwick>>

SensorSendStep == SsLock \/ SsTakeSensors \/ SsRateTake \/ SsRatePut \/ SsSend

\* init with the spawn of sensor_send, which it holds in a comment, enabled
InitTelemetry == InitDM /\ InitSchedOf(Append(SpawnOrder, "sensor_send")) /\ InitPeriph

NextTelemetry == Next \/ SensorSendStep

SpecTelemetry == InitTelemetry /\ [][NextTelemetry]_vars

(***************************************************************************)
(* Claims                                                                  *)
(***************************************************************************)
\* the slot an envelope of each kind is expected in (Madgwick: the result
\* given to store_madgwick_result)
SlotOfKind(k) ==
  CASE k = "Air" -> "air"
    [] k = "EkfNav1" -> "ekf_nav_1"
    [] k = "EkfNav2" -> "ekf_nav_2"
    [] k = "EkfNavAcc" -> "ekf_nav_acc"
    [] k = "EkfQuat" -> "ekf_quat"
    [] k = "Madgwick" -> "madgwick_quat"
    [] k = "Imu1" -> "imu_1"
    [] k = "Imu2" -> "imu_2"
    [] k = "UtcTime" -> "utc_time"
    [] k = "GpsVel" -> "gps_vel"
    [] k = "GpsVelAcc" -> "gps_vel_acc"
    [] k = "GpsPos1" -> "gps_pos_1"
    [] k = "GpsPos2" -> "gps_pos_2"
    [] k = "GpsPosAcc" -> "gps_pos_acc"
    [] k = "NavPosLlh" -> "nav_pos_l1h"
    [] k = "RecoverySensing" -> "recovery_sensing"

SlotKinds == (SensorKinds \ {"ResetReason"}) \cup {"Madgwick"}

\* the entry of a returned array that belongs to a slot
Entry(arr, slot) == arr[CHOOSE i \in 1..Len(TakeOrder) : TakeOrder[i] = slot]

\* C1: once take_sensors has returned and until handle_data or
\* store_madgwick_result is called, all 16 sensor slots are empty; a
\* take_sensors that follows another with no such call in between returns 16
\* entries that are all None.
C1_TakeDrains ==
  /\ untouched => \A s \in SlotNames : dm[s] = None
  /\ (lastOp = "take_sensors" /\ cleanTake) => \A i \in 1..16 : taken[i] = None

\* a second take_sensors, right after one that delivered an envelope
C1_Witness ==
  /\ lastOp = "take_sensors"
  /\ cleanTake
  /\ \E i \in 1..16 : prevTaken[i] # None

\* C2: every sensor slot holds the envelope of the most recent handle_data of
\* its kind since the previous take_sensors (None if there was none), and
\* take_sensors returns exactly these envelopes, each in the entry of its slot.
C2_LatestWins ==
  /\ \A k \in SlotKinds : dm[SlotOfKind(k)] = latest[k]
  /\ lastOp = "take_sensors" =>
       \A k \in SlotKinds : Entry(taken, SlotOfKind(k)) = expected[k]

\* take_sensors delivered the second of two envelopes of one kind; the first
\* was overwritten
C2_Witness ==
  /\ lastOp = "take_sensors"
  /\ \E m \in lost :
       /\ Entry(taken, SlotOfKind(m.kind)) # None
       /\ Entry(taken, SlotOfKind(m.kind)) # m
       /\ Entry(taken, SlotOfKind(m.kind)).kind = m.kind

(***************************************************************************)
(* Logging rate                                                            *)
(***************************************************************************)
\* C3: with can_command handling RadioRateChange commands and sensor_send
\* calling get_logging_rate, the rate get_logging_rate returns is the rate of
\* the latest command handled (Slow before any); the two tasks are never
\* inside data_manager together, the slot is empty only between the take and
\* the put-back of sensor_send, and outside them it holds the latest rate
C3_RateNeverTorn ==
  /\ pc["sensor_send"] \in {"rate_put", "send"} => loc.ssRate = cmdRate
  /\ ~ ({"can_command", "sensor_send"} \subseteq inside["data_manager"])
  /\ dm.logging_rate = "None" => (pc["sensor_send"] = "rate_put" /\ Top = "sensor_send")
  /\ pc["sensor_send"] # "rate_put" => dm.logging_rate = cmdRate

\* get_logging_rate returned the rate a handled RadioRateChange set
C3_Witness == pc["sensor_send"] = "send" /\ loc.ssRate = "Fast"

(***************************************************************************)
(* Resources and scheduling                                                *)
(***************************************************************************)
\* every resource.lock(..) of the tasks init starts or an interrupt starts:
\* the task, its position just before the lock, and the resource
LockSites ==
  {<<"baro_read", "store", "data_manager">>,
   <<"reset_reason_send", "start", "data_manager">>,
   <<"reset_reason_send", "lock_rtc", "rtc">>,
   <<"send_gs", "start", "radio_manager">>,
   <<"can_data", "start", "can_data_manager">>,
   <<"can_data", "madgwick", "madgwick_service">>,
   <<"can_data", "store", "data_manager">>,
   <<"can_command", "start", "can_command_manager">>,
   <<"can_command", "lock_dm", "data_manager">>,
   <<"sleep_system", "start", "sbg_power">>}

\* the task of site x has reached the lock of x and asks for the resource
Requests(x) == OnStack(x[1]) /\ pc[x[1]] = x[2]

\* C4: at most one task is inside a lock closure of any shared resource, and
\* while a task is inside one no task that preempted it is inside it too
C4_MutualExclusion ==
  \A r \in Resources : Cardinality(inside[r]) <= 1

\* can_data has preempted can_command, which holds can_command_manager, and is
\* itself inside data_manager
C4_Witness ==
  /\ stack = <<"can_command", "can_data">>
  /\ inside["can_command_manager"] = {"can_command"}
  /\ inside["data_manager"] = {"can_data"}

\* C5: a lock never blocks: the task on the processor that reaches a lock
\* finds the resource free, a task on the processor can always take a step
\* (no deadlock), and every task that asks for a resource gets inside it
C5_LocksGranted ==
  /\ [](\A x \in LockSites : (Requests(x) /\ Top = x[1]) => inside[x[3]] = {})
  /\ [](stack # <<>> => ENABLED CpuStep)
  /\ \A x \in LockSites : Requests(x) ~> (x[1] \in inside[x[3]])

\* can_command holds both of its nested resources while can_data is pending
C5_Witness ==
  /\ "can_command" \in inside["can_command_manager"]
  /\ "can_command" \in inside["data_manager"]
  /\ "can_data" \in pend

(***************************************************************************)
(* Error handling                                                          *)
(***************************************************************************)
\* C6: the fault flag is sticky: no step of any task takes has_error() from
\* true to false, an em.run whose operation returns Ok included
C6_FlagSticky == [][HasError => HasError']_vars

\* an em.run found the flag set, its operation returned Ok, the flag is set
C6_Witness == HasError /\ okAfterFault

\* the step of baro_read that hands the driver's Err to em.run
BaroFaultStep == BaroStore /\ loc.baro = "Err"

C8_CommandProcessed == (cmdFifo # <<>>) ~> (cmdFifo = <<>>)

\* C9: once can_data has returned, the latest envelope it decoded of a kind
\* that has a slot is in the DataManager slot of that kind
C9_DecodedStored ==
  \A k \in DataKinds \cap SlotKinds :
    (decoded[k] # None /\ pc["can_data"] = "idle") => dm[SlotOfKind(k)] = decoded[k]

\* slots the tasks write
WrittenSlots == {"madgwick_quat"}

\* C10: an envelope in a sensor slot is eventually taken out of the slot and
\* handed to send_gs, unless another envelope replaces it in the slot
C10_StoredDrained ==
  \A s \in WrittenSlots :
    \A m \in {Env("EkfQuat", 1, "-")} :
      (dm[s] = m) ~> (m \in handed \/ (dm[s] # m /\ dm[s] # None))

(***************************************************************************)
(* RadioManager (communication.rs) and the serial link of the radio        *)
(***************************************************************************)
MaxRadioFrames == 1

\* the inner message of a frame read from the link: the variants of
\* MavMessage that receive_message names, and any other one
RadioKinds == {"POSTCARD_MESSAGE", "COMMAND_MESSAGE", "HEARTBEAT", "OTHER"}

\* envelopes the ground station sends
RadioCommands == {Env("Command", 1, "PowerDown")}

\* the bytes a frame carries: the encoding of an envelope, or bytes that
\* are the encoding of none
RadioBodies == RadioCommands \cup {Env("State", 1, "Armed"), Garbage}

\* bytes on the link that read_versioned_msg cannot read as a frame
Unreadable == [kind |-> "Unreadable", body |-> Garbage]

RadioFrames == [kind : RadioKinds, body : RadioBodies] \cup {Unreadable}

\* postcard::from_bytes::<RadioMessage>(bytes)
FromBytes(b) ==
  IF Decodes(b) THEN [tag |-> "Ok", msg |-> b, err |-> "-"]
                ELSE [tag |-> "Err", msg |-> None, err |-> "Postcard"]

\* a receive_message that takes a heartbeat for a data frame
RadioReceiveHeartbeatAsData(f) ==
  CASE f.kind = "Unreadable" -> [tag |-> "Err", msg |-> None, err |-> "Read"]
    [] f.kind \in {"POSTCARD_MESSAGE", "HEARTBEAT"} -> FromBytes(f.body)
    [] f.kind = "COMMAND_MESSAGE" -> FromBytes(f.body)
    [] OTHER -> [tag |-> "Err", msg |-> None, err |-> "Io"]

\* RadioManager::receive_message: what it returns for the frame on the link
RadioReceiveMessage(f) ==
  CASE f.kind = "Unreadable" -> [tag |-> "Err", msg |-> None, err |-> "Read"]
    [] f.kind = "POSTCARD_MESSAGE" -> FromBytes(f.body)
    [] f.kind = "COMMAND_MESSAGE" -> FromBytes(f.body)
    [] f.kind = "HEARTBEAT" -> [tag |-> "Err", msg |-> None, err |-> "Io"]
    [] OTHER -> [tag |-> "Err", msg |-> None, err |-> "Io"]

\* frames the ground station sends while the whole application runs
GroundFrames ==
  {[kind |-> "COMMAND_MESSAGE", body |-> c] : c \in RadioCommands}
    \cup {[kind |-> "HEARTBEAT", body |-> Garbage]}

\* a frame from the ground station reaches the receiver of UART4
RadioFrameArrive ==
  \E f \in GroundFrames :
    /\ radio.arrived < MaxRadioFrames
    /\ radio' = [radio EXCEPT !.rx = Append(@, f), !.arrived = @ + 1]
    /\ UNCHANGED <<dm, dmHist, sched, canEnv, hist, cmdTx, ms, units>>

\* The application with the ground station sending.  No task of main.rs
\* calls RadioManager::receive_message, and send_command_internal, the only
\* caller of CanCommandManager::send_message, is spawned nowhere: no action
\* reads radio.rx and none adds to cmdTx.
NextUplink == Next \/ RadioFrameArrive

SpecUplink == Init /\ [][NextUplink]_vars

LiveSpecUplink ==
  /\ SpecUplink
  /\ WF_vars(CpuStep)
  /\ WF_vars(TimerExpire)
  /\ SF_vars(CanCommandStep)
  /\ \A t \in HwTasks : SF_vars(DispatchTask(t))

\* C11: every command envelope that receive_message decodes from an inbound
\* radio frame is eventually sent on the CAN command bus
C11_CommandRelayed ==
  \A c \in RadioCommands :
    (\E i \in 1..Len(radio.rx) :
        RadioReceiveMessage(radio.rx[i]) = [tag |-> "Ok", msg |-> c, err |-> "-"])
      ~> (c \in cmdTx)

(***************************************************************************)
(* The application started with frames already in the command FIFO         *)
(***************************************************************************)
RECURSIVE SeqsUpTo(_, _)
\* the sequences over S of length at most n
SeqsUpTo(S, n) ==
  IF n = 0 THEN {<<>>}
  ELSE LET shorter == SeqsUpTo(S, n - 1) IN
       shorter \cup {Append(q, x) : q \in shorter, x \in S}

\* what FIFO 0 of FDCAN1 can hold when init returns
PollFifos == SeqsUpTo(CmdFrames, FifoCap)

InitPoll ==
  /\ InitDM
  /\ InitPeriph
  /\ \E q \in PollFifos : InitSchedWith(SpawnOrder, q)

SpecPoll == InitPoll /\ [][Next]_vars

\* a step of can_command inside process_data that ends with the loop of
\* process_data still running
PollContinues == pc["can_command"] = "process" /\ pc'["can_command"] = "process"

U8 == 256

\* the buffer send_gs encodes into, and the array send_message copies into
GsBufLen == 255

PayloadLen == 255

Min(a, b) == IF a < b THEN a ELSE b

\* lengths of the postcard encoding of the envelopes handed to send_gs
EncodedLens == {12, 255, 256}

GsMessages == [env : {Env("State", 1, "Armed")}, len : EncodedLens]

\* postcard::to_slice(&m, &mut buf): the bytes of the encoding, or
\* SerializeBufferFull when they do not fit the buffer
ToSlice(m, cap) ==
  IF m.len <= cap
    THEN [tag |-> "Ok", bytes |-> [of |-> m.env, from |-> 1, to |-> m.len]]
    ELSE [tag |-> "Err", bytes |-> [of |-> m.env, from |-> 1, to |-> 0]]

\* fixed_payload[..len].copy_from_slice(&payload[..len]): the bytes of the
\* payload that end up in the frame (the rest of the array is zero)
FixedPayload(bytes) == [bytes EXCEPT !.to = Min(@, PayloadLen)]

\* an increment that stops at the largest value instead of wrapping
IncrementSaturating(r) == [r EXCEPT !.mav_sequence = Min(@ + 1, U8 - 1)]

\* RadioManager::increment_mav_sequence: the manager it leaves; it returns
\* the new mav_sequence
IncrementMavSequence(r) == [r EXCEPT !.mav_sequence = (@ + 1) % U8]

\* RadioManager::send_message(payload), write being what write_versioned_msg
\* returns: the manager it leaves and what it returns
SendMessage(r, payload, write) ==
  LET r1 == IncrementMavSequence(r)
      mav_header == [system_id |-> 1, component_id |-> 1, sequence |-> r1.mav_sequence]
      mav_frame == [header |-> mav_header, message |-> FixedPayload(payload)]
  IN [radio |-> [r1 EXCEPT !.frame = mav_frame,
                           !.prevSeq = IF r.frame = None THEN -1 ELSE r.frame.header.sequence],
      written |-> IF write = "Ok" THEN mav_frame ELSE None,
      result |-> write]

\* a send_gs that cuts the encoding to the buffer instead of failing
SendGsTruncating(r, m, write) ==
  SendMessage(r, [of |-> m.env, from |-> 1, to |-> Min(m.len, GsBufLen)], write)

\* the closure send_gs hands to em.run: to_slice(..)?, send_message(..)?
SendGs(r, m, write) ==
  LET data == ToSlice(m, GsBufLen) IN
  IF data.tag = "Err" THEN [radio |-> r, written |-> None, result |-> "Err"]
                      ELSE SendMessage(r, data.bytes, write)

\* send_gs with a message m while the transmitter answers `write`
RadioSendGs ==
  \E m \in GsMessages, write \in {"Ok", "Err"} :
    LET out == SendGs(radio, m, write) IN
    /\ radio' = [out.radio EXCEPT
                   !.wire = out.written,
                   !.last = [len |-> m.len, link |-> write, result |-> out.result,
                             flagBefore |-> em]]
    /\ EmRan(out.result)
    /\ UNCHANGED <<dm, dmHist, canEnv, hist, cmdTx, ms, units>>
    /\ UNCHANGED <<pc, rq, pend, stack, inside, loc, gsMsg, sbgPower, madgwick>>

SpecRadioSend == Init /\ [][RadioSendGs]_vars

\* C13: the header of every frame send_message builds carries the counter as
\* just advanced, which is the sequence of the frame before plus 1 modulo
\* 256, and 1 in the first frame after construction
C13_SequenceConsecutive ==
  /\ radio.mav_sequence \in 0 .. 255
  /\ radio.frame = None => radio.mav_sequence = 0
  /\ radio.frame # None =>
       /\ radio.frame.header.sequence = radio.mav_sequence
       /\ IF radio.prevSeq = -1
            THEN radio.frame.header.sequence = 1
            ELSE radio.frame.header.sequence = (radio.prevSeq + 1) % 256

\* the frame after the one numbered 255 is numbered 0
C13_Witness ==
  /\ radio.frame # None
  /\ radio.prevSeq = 255
  /\ radio.frame.header.sequence = 0

\* C14: a send_gs of a message whose encoding exceeds 255 bytes, the
\* transmitter accepting what is written, returns Ok, leaves the fault flag as
\* it was, and has put the first 255 bytes of the encoding on the link
C14_OversizeTruncated ==
  (radio.last.result # "none" /\ radio.last.len > 255 /\ radio.last.link = "Ok") =>
    /\ radio.last.result = "Ok"
    /\ em = radio.last.flagBefore
    /\ radio.wire # None
    /\ radio.wire.message.from = 1
    /\ radio.wire.message.to = 255
    /\ radio.wire.header.sequence = radio.mav_sequence

(***************************************************************************)
(* The receive path: RadioManager::receive_message called on what the      *)
(* link delivers                                                           *)
(***************************************************************************)
MaxLinkFrames == 2

\* any frame, or bytes that are none, reaches the receiver
RadioLinkDeliver ==
  \E f \in RadioFrames :
    /\ radio.arrived < MaxLinkFrames
    /\ radio' = [radio EXCEPT !.rx = Append(@, f), !.arrived = @ + 1]
    /\ UNCHANGED <<dm, dmHist, sched, canEnv, hist, cmdTx, ms, units>>

\* receive_message is called: it reads the next frame of the link (nothing
\* there to read is a read error) and returns
RadioReceive ==
  LET f == IF radio.rx = <<>> THEN Unreadable ELSE Head(radio.rx) IN
  /\ radio' = [radio EXCEPT
                 !.rx = IF @ = <<>> THEN @ ELSE Tail(@),
                 !.got = [frame |-> f, result |-> RadioReceiveMessage(f)]]
  /\ UNCHANGED <<dm, dmHist, sched, canEnv, hist, cmdTx, ms, units>>

NextRadioReceive == RadioLinkDeliver \/ RadioReceive

SpecRadioReceive == Init /\ [][NextRadioReceive]_vars

\* C15: receive_message returns (Ok or Err, never a panic); it returns Err
\* for a heartbeat and for every kind other than the data and command kinds;
\* for those two it returns Ok with the envelope the carried bytes encode
\* when they encode one and Err when they encode none, whichever of the two
\* kinds carried them
C15_ReceiveByKind ==
  radio.got # None =>
    LET f == radio.got.frame
        r == radio.got.result
    IN /\ r.tag \in {"Ok", "Err"}
       /\ f.kind \notin {"POSTCARD_MESSAGE", "COMMAND_MESSAGE"} => r.tag = "Err"
       /\ f.kind \in {"POSTCARD_MESSAGE", "COMMAND_MESSAGE"} =>
            /\ r.tag = "Ok" <=> Decodes(f.body)
            /\ r.tag = "Ok" => r.msg = f.body
            /\ \A k \in {"POSTCARD_MESSAGE", "COMMAND_MESSAGE"} :
                 RadioReceiveMessage([kind |-> k, body |-> f.body]) = r

\* a heartbeat was read and answered with Err
C15_Witness ==
  /\ radio.got # None
  /\ radio.got.frame.kind = "HEARTBEAT"
  /\ radio.got.result.tag = "Err"

(***************************************************************************)
(* Ms5611 (crates/common-arm/src/drivers/ms5611.rs)                        *)
(***************************************************************************)
\* mod command
RESET == 30

ADC_READ == 0

PROM_READ_ADDR_1 == 162

\* read_coefficients: the command that reads coefficient k (PROM_READ_ADDR_k)
PromReadAddr(k) == PROM_READ_ADDR_1 + 2 * (k - 1)

Oversamplings == {"Osr256", "Osr512", "Osr1024", "Osr2048", "Osr4096"}

\* OversamplingRatio::pressure_command
PressureCommand(osr) ==
  CASE osr = "Osr256" -> 64
    [] osr = "Osr512" -> 66
    [] osr = "Osr1024" -> 68
    [] osr = "Osr2048" -> 70
    [] osr = "Osr4096" -> 72

\* OversamplingRatio::temperature_command
TemperatureCommand(osr) ==
  CASE osr = "Osr256" -> 80
    [] osr = "Osr512" -> 82
    [] osr = "Osr1024" -> 84
    [] osr = "Osr2048" -> 86
    [] osr = "Osr4096" -> 88

ConversionCommands ==
  {PressureCommand(o) : o \in Oversamplings} \cup {TemperatureCommand(o) : o \in Oversamplings}

\* i64 arithmetic on values that need more than 32 bits: (a * b) >> k,
\* for b >= 0, computed on 15-bit halves of the operands
Limb == 32768

MulShr(a, b, k) ==
  LET a1 == a \div Limb
      a0 == a % Limb
      b1 == b \div Limb
      b0 == b % Limb
      hi == a1 * b1
      mid == a1 * b0 + a0 * b1
      lo == a0 * b0
  IN IF k >= 30 THEN (hi + (mid + lo \div Limb) \div Limb) \div 2 ^ (k - 30)
     ELSE IF k >= 15 THEN hi * 2 ^ (30 - k) + (mid + lo \div Limb) \div 2 ^ (k - 15)
     ELSE hi * 2 ^ (30 - k) + mid * 2 ^ (15 - k) + lo \div 2 ^ k

Abs(x) == IF x < 0 THEN -x ELSE x

\* `x as f32`: every i64 is inside the range of f32, so the result is finite;
\* it is x rounded to 24 significant bits (ties to even)
I64AsF32(x) ==
  LET m == Abs(x)
      q == CHOOSE e \in {2 ^ i : i \in 0 .. 8} : m \div e < 16777216 /\ (e = 1 \/ m \div (e \div 2) >= 16777216)
      down == (m \div q) * q
      rest == m - down
      up == IF 2 * rest > q \/ (2 * rest = q /\ (m \div q) % 2 = 1) THEN down + q ELSE down
  IN [class |-> "finite", num |-> IF x < 0 THEN -up ELSE up, den |-> 1]

\* f32 division: the quotient is NaN for 0/0 and for inf/inf, infinite for a
\* division of a non-zero value by zero, otherwise the (rounded) quotient,
\* kept as the fraction it rounds
F32Div(f, d) ==
  IF f.class = "nan" THEN f
  ELSE IF d = 0 THEN [class |-> IF f.num = 0 THEN "nan" ELSE "inf", num |-> f.num, den |-> 0]
  ELSE [f EXCEPT !.den = @ * d]

\* f32::is_finite
IsFinite(f) == f.class = "finite"

\* the six coefficients a driver holds before read_coefficients returned
PlaceholderCoefficients == <<0, 0, 0, 0, 0, 0>>

\* a driver whose calculation reads the coefficients shifted by the number of
\* readings it has made
CoefficientsDrifting(self) == [self.coefficients EXCEPT ![5] = @ + self.reads]

\* let c = &self.coefficients: what the calculation reads of the driver
CoefficientsOf(self) == self.coefficients

\* a second-order correction that also applies at 20.00 degrees
SecondOrderFrom2000(temp) == temp <= 2000

\* if temp < 2000
SecondOrderApplies(temp) == temp < 2000

\* a low-temperature tier that is also entered at -15.00 degrees
LowTierFrom1500(temp) == temp <= -1500

\* if temp < -1500
LowTierApplies(temp) == temp < -1500

\* a conversion to final units with a zero scale and no check of the result
FinalUnitsUnchecked(temp, p_i32) ==
  [tag |-> "Ok",
   temperature |-> F32Div(I64AsF32(temp), 0),
   pressure |-> F32Div(I64AsF32(p_i32), 0)]

\* the conversion to degrees and mbar and the is_finite check of both
FinalUnits(temp, p_i32) ==
  LET temp_celsius == F32Div(I64AsF32(temp), 100)
      pressure_mbar == F32Div(I64AsF32(p_i32), 100)
  IN [tag |-> IF IsFinite(temp_celsius) /\ IsFinite(pressure_mbar)
                THEN "Ok" ELSE "CalculationFault",
      temperature |-> temp_celsius,
      pressure |-> pressure_mbar]

\* Ms5611::calculate_compensated_values(&self, d1_raw, d2_raw): self is the
\* driver; c[1..6] are c1_sens_t1 .. c6_temp_sens.  Besides the value it
\* returns, the record carries the locals of the call.
CalculateCompensatedValues(self, d1_raw, d2_raw) ==
  LET c == CoefficientsOf(self)
      d1 == d1_raw
      d2 == d2_raw
      dt == d2 - c[5] * 256
      temp_i32 == 2000 + MulShr(dt, c[6], 23)
      off == c[2] * 65536 + MulShr(dt, c[4], 7)
      sens == c[1] * 32768 + MulShr(dt, c[3], 8)
      second == SecondOrderApplies(temp_i32)
      low == second /\ LowTierApplies(temp_i32)
      temp_diff_sq == (temp_i32 - 2000) * (temp_i32 - 2000)
      temp_low_diff_sq == (temp_i32 + 1500) * (temp_i32 + 1500)
      t2 == IF second THEN MulShr(Abs(dt), Abs(dt), 31) ELSE 0
      off2 == IF ~ second THEN 0
              ELSE (5 * temp_diff_sq) \div 2 + (IF low THEN 7 * temp_low_diff_sq ELSE 0)
      sens2 == IF ~ second THEN 0
               ELSE (5 * temp_diff_sq) \div 4 + (IF low THEN (11 * temp_low_diff_sq) \div 2 ELSE 0)
      temp == temp_i32 - t2
      off_compensated == off - off2
      sens_compensated == sens - sens2
      p_i32 == (MulShr(sens_compensated, d1, 21) - off_compensated) \div 32768
      final == FinalUnits(temp, p_i32)
  IN [tag |-> final.tag,
      temperature |-> final.temperature, pressure |-> final.pressure,
      temp_i32 |-> temp_i32, second |-> second, low |-> low,
      t2 |-> t2, off2 |-> off2, sens2 |-> sens2,
      first_order |-> FinalUnits(temp_i32, (MulShr(sens, d1, 21) - off) \div 32768)]

(***************************************************************************)
(* The driver and the device behind its SPI bus                            *)
(***************************************************************************)
MaxReads == 3

\* PROM contents of the device: words 1..6
PromContents ==
  {<<20000, 16000, 23317, 23282, 33464, 28312>>,
   <<20000, 16000, 23317, 23282, 33464, 100>>}

\* raw temperature values the ADC delivers: around 20.00 and around -15.00
\* degrees for the first PROM, and a large dT at 20.00 degrees for the second
D2Raw == {8566784, 8566488, 8567081, 7529764, 7529468, 7530060, 8632320}

\* raw pressure values the ADC delivers
D1Raw == {4000000}

\* the oversampling ratios of the readings
OsrUsed == {"Osr512", "Osr4096"}

NoReading == [tag |-> "none"]

\* before Ms5611::new is called
MsPowerOn(prom) ==
  [phase |-> "off",
   prom |-> prom,
   log |-> <<>>,          \* history: the commands new wrote to the bus
   resetOk |-> FALSE,     \* history: reset() returned Ok
   okReads |-> 0,         \* history: read_prom_word calls that returned Ok
   read |-> 0,            \* coefficients read_coefficients has got so far
   staged |-> PlaceholderCoefficients,
   coefficients |-> PlaceholderCoefficients,
   err |-> "none",
   reads |-> 0,           \* calls of read_pressure_temperature so far
   cmds |-> <<>>,         \* the commands the latest of them wrote
   d1 |-> 0,
   d2 |-> 0,
   out |-> NoReading,     \* what the latest of them returned
   first |-> [at |-> 0, d1 |-> 0, d2 |-> 0, out |-> NoReading]]
                          \* history: the first completed calculation

\* what new writes when nothing fails
NewCommands == <<RESET>> \o [k \in 1 .. 6 |-> PromReadAddr(k)]

\* the driver new returns when nothing fails
MsReady(prom) ==
  [MsPowerOn(prom) EXCEPT !.phase = "ready", !.log = NewCommands, !.resetOk = TRUE,
                          !.okReads = 6, !.read = 6, !.staged = prom,
                          !.coefficients = prom]

MsFrame == UNCHANGED <<dm, dmHist, sched, canEnv, hist, radio, cmdTx, units>>

\* new: cs.set_high()?
MsNewCsHigh ==
  /\ ms.phase = "off"
  /\ \E o \in {"Ok", "Cs"} :
       ms' = [ms EXCEPT !.phase = IF o = "Ok" THEN "reset" ELSE "failed",
                        !.err = IF o = "Ok" THEN @ ELSE o]
  /\ MsFrame

\* how a with_cs! transaction ends: cs.set_low fails (nothing is written), a
\* write or transfer fails, cs.set_high fails, or nothing fails
Outcomes == {"Ok", "CsLow", "SpiWrite", "SpiTransfer", "CsHigh"}

\* new: sensor.reset()?
MsNewReset ==
  /\ ms.phase = "reset"
  /\ \E o \in Outcomes \ {"SpiTransfer"} :
       ms' = [ms EXCEPT !.log = IF o = "CsLow" THEN @ ELSE Append(@, RESET),
                        !.resetOk = (o = "Ok"),
                        !.phase = IF o = "Ok" THEN "prom" ELSE "failed",
                        !.err = IF o = "Ok" THEN @ ELSE o]
  /\ MsFrame

\* a read_coefficients that takes 0 for a word it could not read
MsNewReadPromLenient ==
  /\ ms.phase = "prom"
  /\ \E o \in Outcomes :
       LET k == ms.read + 1
           word == IF o = "Ok" THEN ms.prom[k] ELSE 0
           got == [ms.staged EXCEPT ![k] = word]
       IN ms' = [ms EXCEPT !.log = IF o = "CsLow" THEN @ ELSE Append(@, PromReadAddr(k)),
                           !.okReads = IF o = "Ok" THEN @ + 1 ELSE @,
                           !.read = k,
                           !.staged = got,
                           !.coefficients = IF k = 6 THEN got ELSE @,
                           !.phase = IF k = 6 THEN "ready" ELSE @]
  /\ MsFrame

\* new: one read_prom_word(PROM_READ_ADDR_k)? of read_coefficients; after the
\* sixth, sensor.coefficients is assigned and Ok(sensor) returned
MsNewReadProm ==
  /\ ms.phase = "prom"
  /\ \E o \in Outcomes :
       LET k == ms.read + 1
           got == [ms.staged EXCEPT ![k] = ms.prom[k]]
       IN ms' = IF o = "Ok"
                  THEN [ms EXCEPT !.log = Append(@, PromReadAddr(k)),
                                  !.okReads = @ + 1,
                                  !.read = k,
                                  !.staged = got,
                                  !.coefficients = IF k = 6 THEN got ELSE @,
                                  !.phase = IF k = 6 THEN "ready" ELSE @]
                  ELSE [ms EXCEPT !.log = IF o = "CsLow" THEN @ ELSE Append(@, PromReadAddr(k)),
                                  !.phase = "failed",
                                  !.err = o]
  /\ MsFrame

\* read_pressure_temperature(osr) on the driver new returned: `fails` is the
\* bus transaction that fails (0: none) of start_conversion(D2), read_adc_raw,
\* start_conversion(D1), read_adc_raw
MsReadPressureTemperature ==
  /\ ms.phase = "ready"
  /\ ms.reads < MaxReads
  /\ \E osr \in OsrUsed, d2_raw \in D2Raw, d1_raw \in D1Raw, fails \in 0 .. 4 :
       LET all == <<TemperatureCommand(osr), ADC_READ, PressureCommand(osr), ADC_READ>>
           out == IF fails = 0 THEN CalculateCompensatedValues(ms, d1_raw, d2_raw)
                               ELSE [tag |-> "Spi"]
       IN ms' = [ms EXCEPT !.reads = @ + 1,
                           !.cmds = IF fails = 0 THEN all ELSE SubSeq(all, 1, fails),
                           !.d1 = IF fails = 0 THEN d1_raw ELSE 0,
                           !.d2 = IF fails = 0 THEN d2_raw ELSE 0,
                           !.out = out,
                           !.first = IF fails = 0 /\ @.at = 0
                                       THEN [at |-> ms.reads + 1, d1 |-> d1_raw,
                                             d2 |-> d2_raw, out |-> out]
                                       ELSE @]
  /\ MsFrame

InitBaro ==
  /\ InitDM
  /\ InitSched
  /\ radio = RadioManagerNew
  /\ cmdTx = {}
  /\ ms \in {MsPowerOn(prom) : prom \in PromContents}
  /\ sbg = SbgIdle
  /\ mwsvc = MwIdle
  /\ canmgr = CanIdle
  /\ bus = BusIdle
  /\ calc = CalcIdle
  /\ canrx = CanRxIdle

NextBaro == MsNewCsHigh \/ MsNewReset \/ MsNewReadProm \/ MsReadPressureTemperature

SpecBaro == InitBaro /\ [][NextBaro]_vars

\* the latest read_pressure_temperature got as far as the calculation
Calculated == ms.out.tag \in {"Ok", "CalculationFault"}

IsPrefix(p, q) == Len(p) <= Len(q) /\ SubSeq(q, 1, Len(p)) = p

\* C16: what new writes to the bus is the reset command and then the PROM
\* read commands 0xA2 .. 0xAC in order, as far as it gets; it returns a driver
\* only after the reset and six reads that all succeeded, with the six PROM
\* words as coefficients; conversion commands are written only by such a
\* driver
C16_ResetPromReady ==
  /\ IsPrefix(ms.log, <<30, 162, 164, 166, 168, 170, 172>>)
  /\ ms.phase = "ready" =>
       /\ ms.log = <<30, 162, 164, 166, 168, 170, 172>>
       /\ ms.resetOk
       /\ ms.okReads = 6
       /\ ms.coefficients = ms.prom
  /\ (ms.cmds # <<>> \/ ms.reads > 0) =>
       /\ ms.phase = "ready"
       /\ ms.okReads = 6
       /\ ms.coefficients = ms.prom
  /\ \A i \in 1 .. Len(ms.log) : ms.log[i] \notin ConversionCommands

\* a driver that new returned has issued both conversions of a reading
C16_Witness ==
  /\ ms.phase = "ready"
  /\ Len(ms.cmds) = 4
  /\ ms.cmds[1] \in {80, 82, 84, 86, 88}
  /\ ms.cmds[3] \in {64, 66, 68, 70, 72}

\* C17: a calculation whose first-order temperature is exactly 2000 skips the
\* second-order correction (T2, OFF2 and SENS2 are 0 and the result is the
\* first-order result); one whose first-order temperature is below 2000
\* applies it
C17_SkipAt2000 ==
  Calculated =>
    /\ ms.out.temp_i32 = 2000 =>
         /\ ~ ms.out.second
         /\ ms.out.t2 = 0 /\ ms.out.off2 = 0 /\ ms.out.sens2 = 0
         /\ ms.out.temperature = ms.out.first_order.temperature
         /\ ms.out.pressure = ms.out.first_order.pressure
    /\ ms.out.temp_i32 < 2000 =>
         /\ ms.out.second
         /\ ms.out.off2 >= (5 * (ms.out.temp_i32 - 2000) * (ms.out.temp_i32 - 2000)) \div 2
         /\ ms.out.off2 > 0
         /\ ms.out.sens2 >= (5 * (ms.out.temp_i32 - 2000) * (ms.out.temp_i32 - 2000)) \div 4
         /\ ms.out.sens2 > 0

\* a calculation at exactly 2000 whose dT is large enough for T2 not to be 0
\* had the correction been applied
C17_Witness ==
  /\ Calculated
  /\ ms.out.temp_i32 = 2000
  /\ ms.d2 - ms.coefficients[5] * 256 >= 65536

\* the terms of the low-temperature tier for a first-order temperature t
LowOff2(t) == 7 * (t + 1500) * (t + 1500)

LowSens2(t) == (11 * (t + 1500) * (t + 1500)) \div 2

\* C18 as claimed: the low-temperature tier is entered for a first-order
\* temperature of exactly -1500 and for every lower one, and for no higher one
C18_LowTierAt1500 ==
  Calculated => (ms.out.low <=> ms.out.temp_i32 <= -1500)

\* C18: the low-temperature tier is entered for every first-order temperature
\* below -1500 and for no other; at exactly -1500 it is not entered, and
\* OFF2 and SENS2 are what entering it would have given, its terms being 0
C18_LowTierBelow1500 ==
  Calculated =>
    /\ ms.out.low <=> ms.out.temp_i32 < -1500
    /\ ms.out.temp_i32 <= -1500 =>
         /\ ms.out.off2 = (5 * (ms.out.temp_i32 - 2000) * (ms.out.temp_i32 - 2000)) \div 2
                            + LowOff2(ms.out.temp_i32)
         /\ ms.out.sens2 = (5 * (ms.out.temp_i32 - 2000) * (ms.out.temp_i32 - 2000)) \div 4
                            + LowSens2(ms.out.temp_i32)
    /\ (ms.out.temp_i32 > -1500 /\ ms.out.temp_i32 < 2000) =>
         /\ ms.out.off2 = (5 * (ms.out.temp_i32 - 2000) * (ms.out.temp_i32 - 2000)) \div 2
         /\ ms.out.sens2 = (5 * (ms.out.temp_i32 - 2000) * (ms.out.temp_i32 - 2000)) \div 4

\* a calculation at exactly -1500
C18_Witness == Calculated /\ ms.out.temp_i32 = -1500

\* the value a reading returns
Returned(out) == [tag |-> out.tag, temperature |-> out.temperature, pressure |-> out.pressure]

C21_FailedReadingCleared ==
  [][(/\ pc["baro_read"] = "in_dm"
      /\ loc.baro = "Err"
      /\ pc'["baro_read"] # "in_dm")
       => (/\ dm'.baro_temperature = "None"
           /\ dm'.baro_pressure = "None"
           /\ em'
           /\ pc'["baro_read"] = "delay")]_vars

\* the reading of an iteration failed while the fields hold the reading of
\* an earlier one
C21_Witness ==
  /\ pc["baro_read"] = "in_dm"
  /\ loc.baro = "Err"
  /\ dm.baro_temperature # "None"
  /\ dm.baro_pressure # "None"

(***************************************************************************)
(* sbg-rs: from a log record of the device to a sensor sample              *)
(* (data_conversion.rs)                                                    *)
(***************************************************************************)
\* Option<T>: Some(v) is <<v>>, None is <<>>
Some(v) == <<v>>

NoneOpt == <<>>

AirFlags ==
  {"PressureAbsValid", "AltitudeValid", "PressureDiffValid", "AirpseedValid",
   "TemperatureValid"}

EkfFlags == {"AttitudeValid", "HeadingValid", "VelocityValid", "PositionValid"}

\* ImuFlags: the two in-range flags the conversion tests, and one it does not
ImuFlags == {"ComOk", "AccelsInRange", "GyrosInRange"}

GpsStatusE == {"SolComputed", "InsufficientObs", "InternalError", "HeightLimit"}

UtcStatus == {"Invalid", "NoLeapSec", "Valid"}

FlagKinds == {"Air", "EkfQuat", "EkfNav", "Imu"}

FlagsOfKind(k) ==
  CASE k = "Air" -> AirFlags
    [] k \in {"EkfQuat", "EkfNav"} -> EkfFlags
    [] k = "Imu" -> ImuFlags
    [] OTHER -> {}

CodesOfKind(k) ==
  CASE k \in {"GpsPos", "GpsVel"} -> GpsStatusE
    [] k = "UtcTime" -> UtcStatus
    [] OTHER -> {}

\* the status word of a log record: the flag bits it has set, whether it has
\* a bit set that is no flag of its kind, and its status code ("Unknown":
\* a code that is no member of the enumeration)
StatusWords(k) ==
  IF k \in FlagKinds
    THEN [bits : SUBSET FlagsOfKind(k), known : BOOLEAN, code : {"-"}]
    ELSE [bits : {{}}, known : {TRUE}, code : CodesOfKind(k) \cup {"Unknown"}]

\* status.get_flags(): the flags of the word, None for a word with a bit
\* that is no flag
GetFlags(status) == IF status.known THEN Some(status.bits) ELSE NoneOpt

\* status.get_status(), status.get_utc_status(): the code of the word, None
\* for a code that is no member
GetStatus(status) == IF status.code = "Unknown" THEN NoneOpt ELSE Some(status.code)

\* check: Some(value) when the flags are there and contain the tested one
Check(flags, test, value) ==
  IF flags # NoneOpt /\ test \in flags[1] THEN Some(value) ELSE NoneOpt

\* bool::then_some
ThenSome(valid, value) == IF valid THEN Some(value) ELSE NoneOpt

SbgKindsConverted == {"Air", "EkfQuat", "EkfNav", "Imu", "GpsPos", "GpsVel", "UtcTime"}

\* the measurement a log record carries in every field
RawValues == {0, 5}

SbgLogs ==
  UNION {[kind : {k}, status : StatusWords(k), raw : RawValues, timeStamp : {1}]
           : k \in SbgKindsConverted}

FromSbgLogGpsPos(value) ==
  LET status == value.status
      valid == GetStatus(status) = Some("SolComputed")
  IN  [kind |-> "GpsPos", time_stamp |-> value.timeStamp, status |-> status,
       fields |->
         [f \in {"latitude", "longitude", "time_of_week", "undulation", "altitude",
                 "latitude_accuracy", "longitude_accuracy", "altitude_accuracy",
                 "num_sv_used", "base_station_id", "differential_age"}
            |-> ThenSome(valid, value.raw)]]

FromSbgLogUtcData(value) ==
  LET status == value.status
      valid == GetStatus(status) \in {Some("Valid"), Some("NoLeapSec")}
  IN  [kind |-> "UtcTime", time_stamp |-> value.timeStamp, status |-> status,
       fields |->
         [f \in {"year", "month", "day", "hour", "minute", "second", "nano_second",
                 "gps_time_of_week"}
            |-> ThenSome(valid, value.raw)]]

FromSbgLogAirData(value) ==
  LET status == value.status
      flags == GetFlags(status)
  IN  [kind |-> "Air", time_stamp |-> value.timeStamp, status |-> status,
       fields |->
         [pressure_abs |-> Check(flags, "PressureAbsValid", value.raw),
          altitude |-> Check(flags, "AltitudeValid", value.raw),
          pressure_diff |-> Check(flags, "PressureDiffValid", value.raw),
          true_airspeed |-> Check(flags, "AirpseedValid", value.raw),
          air_temperature |-> Check(flags, "TemperatureValid", value.raw)]]

FromSbgLogEkfQuatData(value) ==
  LET status == value.status
      flags == GetFlags(status)
  IN  [kind |-> "EkfQuat", time_stamp |-> value.timeStamp, status |-> status,
       fields |->
         [quaternion |-> Check(flags, "HeadingValid", value.raw),
          euler_std_dev |-> Check(flags, "HeadingValid", value.raw)]]

FromSbgLogEkfNavData(value) ==
  LET status == value.status
      flags == GetFlags(status)
  IN  [kind |-> "EkfNav", time_stamp |-> value.timeStamp, status |-> status,
       fields |->
         [velocity_std_dev |-> Check(flags, "VelocityValid", value.raw),
          position_std_dev |-> Check(flags, "PositionValid", value.raw),
          velocity |-> Check(flags, "VelocityValid", value.raw),
          position |-> Check(flags, "PositionValid", value.raw),
          undulation |-> Check(flags, "AttitudeValid", value.raw)]]

\* temperature is Some whatever the status: no flag exists for it
FromSbgLogImuData(value) ==
  LET status == value.status
      flags == GetFlags(status)
  IN  [kind |-> "Imu", time_stamp |-> value.timeStamp, status |-> status,
       fields |->
         [accelerometers |-> Check(flags, "AccelsInRange", value.raw),
          gyroscopes |-> Check(flags, "GyrosInRange", value.raw),
          temperature |-> Some(value.raw),
          delta_velocity |-> Check(flags, "AccelsInRange", value.raw),
          delta_angle |-> Check(flags, "GyrosInRange", value.raw)]]

FromSbgLogGpsVel(value) ==
  LET status == value.status
      valid == GetStatus(status) = Some("SolComputed")
  IN  [kind |-> "GpsVel", time_stamp |-> value.timeStamp, status |-> status,
       fields |->
         [f \in {"time_of_week", "velocity", "course", "course_acc", "velocity_acc"}
            |-> ThenSome(valid, value.raw)]]

\* the From implementation of the record's type
SbgFrom(value) ==
  CASE value.kind = "GpsPos" -> FromSbgLogGpsPos(value)
    [] value.kind = "UtcTime" -> FromSbgLogUtcData(value)
    [] value.kind = "Air" -> FromSbgLogAirData(value)
    [] value.kind = "EkfQuat" -> FromSbgLogEkfQuatData(value)
    [] value.kind = "EkfNav" -> FromSbgLogEkfNavData(value)
    [] value.kind = "Imu" -> FromSbgLogImuData(value)
    [] value.kind = "GpsVel" -> FromSbgLogGpsVel(value)

\* one log record of the device is converted
SbgConvert ==
  /\ sbg.log.kind # "None"
  /\ sbg.sample.kind = "None"
  /\ sbg' = [sbg EXCEPT !.sample = SbgFrom(sbg.log)]
  /\ UNCHANGED <<dm, dmHist, sched, canEnv, hist, radio, cmdTx, ms, mwsvc, canmgr, bus, calc, canrx>>

InitSbg ==
  /\ InitDM
  /\ InitSched
  /\ radio = RadioManagerNew
  /\ cmdTx = {}
  /\ ms = [phase |-> "ready"]
  /\ sbg \in [log : SbgLogs, sample : {[kind |-> "None"]}]
  /\ mwsvc = MwIdle
  /\ canmgr = CanIdle
  /\ bus = BusIdle
  /\ calc = CalcIdle
  /\ canrx = CanRxIdle

SpecSbg == InitSbg /\ [][SbgConvert]_vars

\* the validity flags of a kind: the flags its conversion can test
ValidityFlags(k) ==
  CASE k = "Air" -> AirFlags
    [] k \in {"EkfQuat", "EkfNav"} -> EkfFlags
    [] k = "Imu" -> {"AccelsInRange", "GyrosInRange"}
    [] OTHER -> {}

\* the status word of the record asserts no validity: no validity flag is
\* set, or the status code is none of the valid ones
AssertsNoValidity(log) ==
  IF log.kind \in FlagKinds
    THEN log.status.bits \cap ValidityFlags(log.kind) = {}
    ELSE log.status.code \notin {"SolComputed", "Valid", "NoLeapSec"}

\* C22: the sample made from a log record whose status asserts no validity
\* has None in every optional measurement field
C22_NoValidityAllNone ==
  (sbg.sample.kind # "None" /\ AssertsNoValidity(sbg.log))
    => \A f \in DOMAIN sbg.sample.fields : sbg.sample.fields[f] = NoneOpt

(***************************************************************************)
(* MadgwickService (madgwick_service.rs)                                   *)
(***************************************************************************)
\* calls made on one service
MaxMwCalls == 3

\* filter gain and sample period, in hundredths
DEFAULT_BETA == 10

DEFAULT_SAMPLE_PERIOD == 1

\* the rounds of the two bootstrap loops
BootstrapRounds == 5

Zero3 == <<0, 0, 0>>

\* the at-rest reading of the bootstrap: magnetometer along x, no angular
\* rate, gravity along z
AtRest == [m |-> <<1, 0, 0>>, ar |-> Zero3, g |-> <<0, 0, 1>>]

\* Marg::new: a filter that was fed nothing
MargNew(beta, sample_period) ==
  [beta |-> beta, sample_period |-> sample_period, fed |-> <<>>]

\* one component of a quaternion: its axis and where it comes from, <<>> for
\* a literal of the code and <<filter>> for the filter that returned it
Component(axis, origin) == <<axis, origin>>

Identity ==
  <<Component("w", <<>>), Component("x", <<>>), Component("y", <<>>),
    Component("z", <<>>)>>

\* Marg::update: the filter integrates the reading and returns its
\* quaternion, a value fixed by the gain, the period and the readings fed
MargUpdate(marg, m, ar, g) ==
  LET fedNow == [marg EXCEPT !.fed = Append(@, [m |-> m, ar |-> ar, g |-> g])]
  IN  [marg |-> fedNow,
       quat |-> <<Component("w", <<fedNow>>), Component("x", <<fedNow>>),
                  Component("y", <<fedNow>>), Component("z", <<fedNow>>)>>]

\* the loop `for _ in 0..n`: n updates with the at-rest reading, the
\* quaternion of each kept in place of the one before
RECURSIVE BootstrapLoop(_, _, _)
BootstrapLoop(marg, quat, n) ==
  IF n = 0
    THEN [marg |-> marg, quat |-> quat]
    ELSE LET u == MargUpdate(marg, AtRest.m, AtRest.ar, AtRest.g)
         IN  BootstrapLoop(u.marg, <<u.quat[1], u.quat[2], u.quat[3], u.quat[4]>>, n - 1)

NewWithParams(beta, sample_period) ==
  LET b == BootstrapLoop(MargNew(beta, sample_period), Identity, BootstrapRounds)
  IN  [madgwick |-> b.marg, latest_quat |-> b.quat, beta |-> beta,
       sample_period |-> sample_period]

MadgwickServiceNew == NewWithParams(DEFAULT_BETA, DEFAULT_SAMPLE_PERIOD)

\* initialize with one round less
InitializeFourRounds(self) ==
  LET b == BootstrapLoop(self.madgwick, self.latest_quat, BootstrapRounds - 1)
  IN  [self EXCEPT !.madgwick = b.marg, !.latest_quat = b.quat]

Initialize(self) ==
  LET b == BootstrapLoop(self.madgwick, self.latest_quat, BootstrapRounds)
  IN  [self EXCEPT !.madgwick = b.marg, !.latest_quat = b.quat]

SetBeta(self, beta) ==
  LET s1 == [self EXCEPT !.beta = beta]
      s2 == [s1 EXCEPT !.madgwick = MargNew(s1.beta, s1.sample_period)]
  IN  Initialize(s2)

SetSamplePeriod(self, sample_period) ==
  LET s1 == [self EXCEPT !.sample_period = sample_period]
      s2 == [s1 EXCEPT !.madgwick = MargNew(s1.beta, s1.sample_period)]
  IN  Initialize(s2)

\* a RadioMessage with an Imu payload, or with one of another kind
ImuPayloads ==
  [kind : {"Imu"}, time_stamp : {7, 8},
   accelerometers : {NoneOpt, Some(<<0, 0, 1>>), Some(<<0, 1, 0>>)},
   gyroscopes : {NoneOpt, Some(<<0, 0, 1>>)}]

MwMessages ==
  [timestamp : {1}, node : {"Phoenix", "Argus"}, data : ImuPayloads]
    \cup {[timestamp |-> 1, node |-> "Phoenix", data |-> [kind |-> "Air"]]}

\* process_imu_data that sends the quaternion stored by the call before
ProcessImuDataStale(self, data) ==
  IF /\ data.data.kind = "Imu"
     /\ data.data.accelerometers # NoneOpt
     /\ data.data.gyroscopes # NoneOpt
    THEN LET accel == data.data.accelerometers[1]
             gyro == data.data.gyroscopes[1]
             u == MargUpdate(self.madgwick, Zero3,
                             <<gyro[1], gyro[2], gyro[3]>>,
                             <<accel[1], accel[2], accel[3]>>)
             quat == self.latest_quat
         IN  [self |-> [self EXCEPT !.madgwick = u.marg,
                                    !.latest_quat = <<u.quat[1], u.quat[2], u.quat[3], u.quat[4]>>],
              out |-> Some([timestamp |-> data.timestamp,
                            node |-> data.node,
                            data |-> [kind |-> "EkfQuat",
                                      time_stamp |-> data.data.time_stamp,
                                      quaternion |-> Some(<<quat[1], quat[2], quat[3], quat[4]>>),
                                      euler_std_dev |-> NoneOpt,
                                      status |-> 0]])]
    ELSE [self |-> self, out |-> NoneOpt]

\* process_imu_data that asks only for the accelerometers and takes missing
\* gyroscopes as no angular rate
ProcessImuDataAccelOnly(self, data) ==
  IF /\ data.data.kind = "Imu"
     /\ data.data.accelerometers # NoneOpt
    THEN LET accel == data.data.accelerometers[1]
             gyro == IF data.data.gyroscopes # NoneOpt
                       THEN data.data.gyroscopes[1] ELSE Zero3
             u == MargUpdate(self.madgwick, Zero3,
                             <<gyro[1], gyro[2], gyro[3]>>,
                             <<accel[1], accel[2], accel[3]>>)
             quat == u.quat
         IN  [self |-> [self EXCEPT !.madgwick = u.marg,
                                    !.latest_quat = <<quat[1], quat[2], quat[3], quat[4]>>],
              out |-> Some([timestamp |-> data.timestamp,
                            node |-> data.node,
                            data |-> [kind |-> "EkfQuat",
                                      time_stamp |-> data.data.time_stamp,
                                      quaternion |-> Some(<<quat[1], quat[2], quat[3], quat[4]>>),
                                      euler_std_dev |-> NoneOpt,
                                      status |-> 0]])]
    ELSE [self |-> self, out |-> NoneOpt]

\* process_imu_data: the service after the call and what the call returns
MwProcessImuData(self, data) ==
  IF /\ data.data.kind = "Imu"
     /\ data.data.accelerometers # NoneOpt
     /\ data.data.gyroscopes # NoneOpt
    THEN LET accel == data.data.accelerometers[1]
             gyro == data.data.gyroscopes[1]
             u == MargUpdate(self.madgwick, Zero3,
                             <<gyro[1], gyro[2], gyro[3]>>,
                             <<accel[1], accel[2], accel[3]>>)
             quat == u.quat
         IN  [self |-> [self EXCEPT !.madgwick = u.marg,
                                    !.latest_quat = <<quat[1], quat[2], quat[3], quat[4]>>],
              out |-> Some([timestamp |-> data.timestamp,
                            node |-> data.node,
                            data |-> [kind |-> "EkfQuat",
                                      time_stamp |-> data.data.time_stamp,
                                      quaternion |-> Some(<<quat[1], quat[2], quat[3], quat[4]>>),
                                      euler_std_dev |-> NoneOpt,
                                      status |-> 0]])]
    ELSE [self |-> self, out |-> NoneOpt]

Betas == {DEFAULT_BETA, 5}

SamplePeriods == {DEFAULT_SAMPLE_PERIOD, 2}

MwCallProcess ==
  /\ mwsvc.calls < MaxMwCalls
  /\ \E data \in MwMessages :
       LET r == MwProcessImuData(mwsvc.svc, data)
       IN  mwsvc' = [svc |-> r.self, calls |-> mwsvc.calls + 1,
                     op |-> "process_imu_data", arg |-> data, out |-> r.out]
  /\ UNCHANGED <<dm, dmHist, sched, canEnv, hist, radio, cmdTx, ms, sbg, canmgr, bus, calc, canrx>>

MwCallSetBeta ==
  /\ mwsvc.calls < MaxMwCalls
  /\ \E beta \in Betas :
       mwsvc' = [svc |-> SetBeta(mwsvc.svc, beta), calls |-> mwsvc.calls + 1,
                 op |-> "set_beta", arg |-> beta, out |-> NoneOpt]
  /\ UNCHANGED <<dm, dmHist, sched, canEnv, hist, radio, cmdTx, ms, sbg, canmgr, bus, calc, canrx>>

MwCallSetSamplePeriod ==
  /\ mwsvc.calls < MaxMwCalls
  /\ \E sample_period \in SamplePeriods :
       mwsvc' = [svc |-> SetSamplePeriod(mwsvc.svc, sample_period),
                 calls |-> mwsvc.calls + 1,
                 op |-> "set_sample_period", arg |-> sample_period, out |-> NoneOpt]
  /\ UNCHANGED <<dm, dmHist, sched, canEnv, hist, radio, cmdTx, ms, sbg, canmgr, bus, calc, canrx>>

InitMadgwick ==
  /\ InitDM
  /\ InitSched
  /\ radio = RadioManagerNew
  /\ cmdTx = {}
  /\ ms = [phase |-> "ready"]
  /\ sbg = SbgIdle
  /\ \E svc \in {MadgwickServiceNew} \cup {NewWithParams(5, 2)} :
       mwsvc = [svc |-> svc, calls |-> 0, op |-> "new", arg |-> 0, out |-> NoneOpt]
  /\ canmgr = CanIdle
  /\ bus = BusIdle
  /\ calc = CalcIdle
  /\ canrx = CanRxIdle

NextMadgwick == MwCallProcess \/ MwCallSetBeta \/ MwCallSetSamplePeriod

SpecMadgwick == InitMadgwick /\ [][NextMadgwick]_vars

\* the latest call was a process_imu_data that returned Some(envelope)
ReturnedEnvelope == mwsvc.op = "process_imu_data" /\ mwsvc.out # NoneOpt

\* the quaternion the filter of the service returns in its present state
QuatNow ==
  <<Component("w", <<mwsvc.svc.madgwick>>), Component("x", <<mwsvc.svc.madgwick>>),
    Component("y", <<mwsvc.svc.madgwick>>), Component("z", <<mwsvc.svc.madgwick>>)>>

\* C24: the envelope process_imu_data returns has the timestamp and the node
\* of its input, the time_stamp of the IMU sample, as quaternion the four
\* components the update of this call returned, no euler_std_dev, status 0
C24_EnvelopeOfThisUpdate ==
  ReturnedEnvelope =>
    LET env == mwsvc.out[1]
    IN  /\ env.timestamp = mwsvc.arg.timestamp
        /\ env.node = mwsvc.arg.node
        /\ env.data.kind = "EkfQuat"
        /\ env.data.time_stamp = mwsvc.arg.data.time_stamp
        /\ env.data.quaternion = Some(QuatNow)
        /\ env.data.quaternion = Some(mwsvc.svc.latest_quat)
        /\ env.data.euler_std_dev = NoneOpt
        /\ env.data.status = 0

\* a second real sample was processed: the quaternion sent differs from the
\* one the first left in the service
C24_Witness ==
  /\ ReturnedEnvelope
  /\ Len(mwsvc.svc.madgwick.fed) = BootstrapRounds + 2
  /\ mwsvc.arg.node = "Argus"
  /\ mwsvc.arg.data.time_stamp = 8

\* the filter was fed the at-rest reading five times and, after these, only
\* readings of process_imu_data (whose magnetometer is zero)
BootstrappedFirst(marg) ==
  /\ Len(marg.fed) >= BootstrapRounds
  /\ \A i \in 1..BootstrapRounds : marg.fed[i] = AtRest
  /\ \A i \in (BootstrapRounds + 1)..Len(marg.fed) : marg.fed[i].m = Zero3

\* a filter made by Marg::new with these parameters and fed the at-rest
\* reading five times, nothing else
FreshlyBootstrapped(marg, beta, sample_period) ==
  marg = [beta |-> beta, sample_period |-> sample_period,
          fed |-> [i \in 1..BootstrapRounds |-> AtRest]]

\* C25: every call finds a filter that first received exactly five at-rest
\* updates, the update of real data included; set_beta and set_sample_period
\* leave a fresh filter with the new parameter, the other one unchanged, and
\* the five at-rest updates
C25_BootstrapBeforeRealData ==
  [][/\ BootstrappedFirst(mwsvc.svc.madgwick)
     /\ BootstrappedFirst(mwsvc'.svc.madgwick)
     /\ (mwsvc'.op = "process_imu_data" /\ mwsvc'.out # NoneOpt)
          => /\ Len(mwsvc'.svc.madgwick.fed) = Len(mwsvc.svc.madgwick.fed) + 1
             /\ mwsvc'.svc.madgwick.fed[Len(mwsvc'.svc.madgwick.fed)].m = Zero3
     /\ mwsvc'.op = "set_beta"
          => FreshlyBootstrapped(mwsvc'.svc.madgwick, mwsvc'.arg, mwsvc.svc.sample_period)
     /\ mwsvc'.op = "set_sample_period"
          => FreshlyBootstrapped(mwsvc'.svc.madgwick, mwsvc.svc.beta, mwsvc'.arg)]_vars

\* real data was processed by a filter that set_beta had replaced
C25_Witness ==
  /\ ReturnedEnvelope
  /\ mwsvc.calls = 3
  /\ Len(mwsvc.svc.madgwick.fed) = BootstrapRounds + 1
  /\ mwsvc.svc.madgwick.beta = 5
  /\ mwsvc.svc.madgwick.sample_period = DEFAULT_SAMPLE_PERIOD

(***************************************************************************)
(* DataManager: commands and the logging rate                              *)
(***************************************************************************)
\* the step is a call of handle_command
HandleCommandCalled == opCount' = opCount + 1 /\ lastOp' = "handle_command"

\* C26: handle_command returns Ok for every input; an input that is no
\* command leaves every field as it was and requests no task; only a
\* RadioRateChange changes a field, and that field is logging_rate, which
\* gets the rate of the command; only a PowerDown requests the sleep task
C26_CommandFrame ==
  [][HandleCommandCalled =>
       LET m == cmd'.msg
           isRate == m.kind = "Command" /\ m.arg \in {"RateFast", "RateSlow"}
           isPowerDown == m.kind = "Command" /\ m.arg = "PowerDown"
       IN  /\ cmd'.result = "Ok"
           /\ m.kind # "Command" => (dm' = dm /\ ~cmd'.spawns)
           /\ dm' # dm => isRate
           /\ \A f \in DOMAIN dm : f # "logging_rate" => dm'[f] = dm[f]
           /\ isRate => dm'.logging_rate = RateOf(m.arg)
           /\ cmd'.spawns <=> isPowerDown]_vars

\* a PowerDown was handled by a DataManager that holds a sensor envelope and
\* a rate set by an earlier command
C26_Witness ==
  /\ lastOp = "handle_command"
  /\ cmd.msg = Env("Command", 1, "PowerDown")
  /\ cmd.spawns
  /\ dm.logging_rate = "Fast"
  /\ dm.air # None

\* the step is a call of get_logging_rate
GetLoggingRateCalled == opCount' = opCount + 1 /\ lastOp' = "get_logging_rate"

\* C27: get_logging_rate returns the stored rate (Slow when none is stored)
\* and leaves that rate stored; what it returns is the rate of the latest
\* RadioRateChange handled, Slow before any; a call that follows another
\* returns the same rate
C27_RateReturned ==
  [][GetLoggingRateCalled =>
       /\ lastRate' = (IF dm.logging_rate = "None" THEN "Slow" ELSE dm.logging_rate)
       /\ dm'.logging_rate = lastRate'
       /\ \A f \in DOMAIN dm : f # "logging_rate" => dm'[f] = dm[f]
       /\ lastRate' = cmdRate
       /\ lastOp = "get_logging_rate" => lastRate' = lastRate]_vars

\* get_logging_rate returned the Fast of a RadioRateChange handled before
C27_Witness ==
  /\ lastOp = "get_logging_rate"
  /\ lastRate = "Fast"
  /\ cmd.msg = Env("Command", 1, "RateFast")
  /\ dm.logging_rate = "Fast"

(***************************************************************************)
(* PowerDown and the periodic tasks                                        *)
(***************************************************************************)
\* sleep_system has served a PowerDown request: the SBG power enable is low
PowerDownServed == ~sbgPower

\* C28: once a PowerDown request has been served, baro_read and blink each
\* keep being executed: each is on the processor again and again
C28_PeriodicTasksContinue ==
  \A t \in {"baro_read", "blink"} : [](PowerDownServed => []<>Running(t))

(***************************************************************************)
(* CanManager::send_message (can_manager.rs)                               *)
(***************************************************************************)
\* calls of send_message on one manager
MaxCanSends == 3

\* let mut buf = [0u8; 64]
CanBufLen == 64

\* lengths of the postcard encoding of the messages handed to send_message
CanEncodedLens == {12, 64, 65}

CanMessages ==
  [env : {Env("Command", 1, "PowerDown"), Env("Command", 1, "RateFast")},
   len : CanEncodedLens]

\* what self.can.transmit answers: the frame is queued for the bus, or no
\* transmit buffer is free
TransmitOutcomes == {"Ok", "WouldBlock"}

\* CanManager::new: nothing was transmitted
CanManagerNew == [tx |-> <<>>, attempts |-> 0]

\* self.can.transmit(header, payload)
Transmit(can, header, payload, outcome) ==
  [tx |-> IF outcome = "Ok"
            THEN Append(can.tx, [header |-> header, data |-> payload])
            ELSE can.tx,
   attempts |-> can.attempts + 1]

\* a send_message that asks the peripheral a second time when the first
\* transmit fails
SendMessageRetrying(self, m, outcome) ==
  LET payload == ToSlice(m, CanBufLen)
      header == [len |-> (payload.bytes.to - payload.bytes.from + 1) % U8,
                 id |-> "COM_ID",
                 frame_format |-> "Fdcan",
                 bit_rate_switching |-> FALSE,
                 marker |-> NoneOpt]
      first == Transmit(self, header, payload.bytes, outcome)
  IN  IF payload.tag = "Err"
        THEN [can |-> self, result |-> "Err"]
        ELSE IF outcome = "Ok"
          THEN [can |-> first, result |-> "Ok"]
          ELSE [can |-> Transmit(first, header, payload.bytes, outcome), result |-> "Err"]

\* CanManager::send_message: the manager it leaves and what it returns
CanSendMessage(self, m, outcome) ==
  LET payload == ToSlice(m, CanBufLen)
      header == [len |-> (payload.bytes.to - payload.bytes.from + 1) % U8,
                 id |-> "COM_ID",
                 frame_format |-> "Fdcan",
                 bit_rate_switching |-> FALSE,
                 marker |-> NoneOpt]
  IN  IF payload.tag = "Err"
        THEN [can |-> self, result |-> "Err"]
        ELSE [can |-> Transmit(self, header, payload.bytes, outcome),
              result |-> IF outcome = "Ok" THEN "Ok" ELSE "Err"]

CanCallSendMessage ==
  /\ canmgr.calls < MaxCanSends
  /\ \E m \in CanMessages, outcome \in TransmitOutcomes :
       LET r == CanSendMessage(canmgr.can, m, outcome)
       IN  canmgr' = [can |-> r.can, calls |-> canmgr.calls + 1,
                      m |-> m, outcome |-> outcome, result |-> r.result]
  /\ UNCHANGED <<dm, dmHist, sched, canEnv, hist, radio, cmdTx, ms, sbg, mwsvc, bus, calc, canrx>>

InitCanSend ==
  /\ InitDM
  /\ InitSched
  /\ radio = RadioManagerNew
  /\ cmdTx = {}
  /\ ms = [phase |-> "ready"]
  /\ sbg = SbgIdle
  /\ mwsvc = MwIdle
  /\ canmgr = [can |-> CanManagerNew, calls |-> 0, m |-> None, outcome |-> "-",
               result |-> "none"]
  /\ bus = BusIdle
  /\ calc = CalcIdle
  /\ canrx = CanRxIdle

SpecCanSend == InitCanSend /\ [][CanCallSendMessage]_vars

\* C29: send_message encodes into 64 bytes and transmits one FD frame with
\* the standard id COM_ID whose length is the number of encoded bytes (at
\* most 64) and whose data are these bytes; an encoding that does not fit
\* gives Err and no transmit is attempted; a transmit that fails gives Err
\* after that single attempt
C29_OneFrameOrError ==
  [][canmgr'.calls = canmgr.calls + 1 =>
       LET m == canmgr'.m
           before == canmgr.can
           after == canmgr'.can
           fits == m.len <= CanBufLen
           sent == canmgr'.outcome = "Ok"
       IN  /\ (fits /\ sent) =>
                /\ canmgr'.result = "Ok"
                /\ after.attempts = before.attempts + 1
                /\ Len(after.tx) = Len(before.tx) + 1
                /\ SubSeq(after.tx, 1, Len(before.tx)) = before.tx
                /\ LET frame == after.tx[Len(after.tx)]
                   IN  /\ frame.header.len = m.len
                       /\ frame.header.len <= CanBufLen
                       /\ frame.header.id = "COM_ID"
                       /\ frame.header.frame_format = "Fdcan"
                       /\ frame.data = [of |-> m.env, from |-> 1, to |-> m.len]
           /\ ~fits => (canmgr'.result = "Err" /\ after = before)
           /\ (fits /\ ~sent) =>
                /\ canmgr'.result = "Err"
                /\ after.tx = before.tx
                /\ after.attempts = before.attempts + 1]_vars

\* a 64-byte encoding was transmitted after a failed transmit and an
\* encoding that did not fit
C29_Witness ==
  /\ canmgr.calls = 3
  /\ canmgr.result = "Ok"
  /\ canmgr.m.len = CanBufLen
  /\ canmgr.can.attempts = 2
  /\ Len(canmgr.can.tx) = 1

(***************************************************************************)
(* Locks and suspension points                                             *)
(***************************************************************************)
\* the positions at which a task is suspended: in Mono::delay(..).await, in
\* receiver.recv().await
SuspensionPoints == {"delay", "recv_wait"}

Suspended(t) == pc[t] \in SuspensionPoints

\* C30: a task suspended in a timed delay or in a channel receive is inside
\* the lock closure of no shared resource
C30_NoLockAcrossSuspension ==
  \A t \in Tasks : Suspended(t) => \A r \in Resources : t \notin inside[r]

\* sensor_send and baro_read are both in their delay, each after an iteration
\* that locked data_manager: a reading is stored and an envelope was taken
\* and handed to send_gs
C30_Witness ==
  /\ pc["sensor_send"] = "delay"
  /\ pc["baro_read"] = "delay"
  /\ dm.baro_temperature # "None"
  /\ handed # {}

(***************************************************************************)
(* The Ms5611 driver call by call: chip select, SPI calls and delays       *)
(***************************************************************************)

\* driver calls looked at in one behaviour
MaxBusCalls == 2

\* a table of conversion times with the times of two levels exchanged
ConversionTimeUsSwapped(osr) ==
  CASE osr = "Osr256" -> 600
    [] osr = "Osr512" -> 1170
    [] osr = "Osr1024" -> 4540
    [] osr = "Osr2048" -> 2280
    [] osr = "Osr4096" -> 9040

\* OversamplingRatio::conversion_time_us
ConversionTimeUs(osr) ==
  CASE osr = "Osr256" -> 600
    [] osr = "Osr512" -> 1170
    [] osr = "Osr1024" -> 2280
    [] osr = "Osr2048" -> 4540
    [] osr = "Osr4096" -> 9040

\* one call on the pins, the SPI bus or the delay provider: what was called,
\* the first byte handed over (the microseconds of a delay), the number of
\* bytes, and whether the call answered Ok
Ev(k, v, n, ok) == [k |-> k, v |-> v, n |-> n, ok |-> ok]

\* self.spi.write(&[byte]) and self.spi.transfer(&mut buffer) before they run
SpiWrite(byte) == [k |-> "write", v |-> byte, n |-> 1]
SpiTransfer(first, n) == [k |-> "transfer", v |-> first, n |-> n]

\* where one transaction can fail: nowhere, at cs.set_low, at the first or
\* the second SPI call of its block, at cs.set_high
TransactionFaults == {"none", "CsLow", "Spi1", "Spi2", "CsHigh"}
FaultsOf(block) ==
  IF Len(block) = 1 THEN TransactionFaults \ {"Spi2"} ELSE TransactionFaults

\* the SPI calls of a block that run: all of them, or those up to the one
\* that fails
BlockRun(block, fail) ==
  LET n == CASE fail = "Spi1" -> 1 [] fail = "Spi2" -> 2 [] OTHER -> Len(block)
  IN [i \in 1..n |->
        Ev(block[i].k, block[i].v, block[i].n,
           ~((fail = "Spi1" /\ i = 1) \/ (fail = "Spi2" /\ i = 2)))]

\* with_cs!(self, block): set_low()?, the block, set_high()?, the block's
\* result.  early: the block leaves the enclosing function with `?` on an
\* SPI error, so that set_high is not reached
WithCs(cs, block, fail, early) ==
  LET ran == BlockRun(block, fail)
      spiFailed == fail \in {"Spi1", "Spi2"}
  IN CASE fail = "CsLow" ->
            [cs |-> cs, events |-> <<Ev("cs_low", 0, 0, FALSE)>>, result |-> "Cs"]
       [] spiFailed /\ early ->
            [cs |-> "low", events |-> <<Ev("cs_low", 0, 0, TRUE)>> \o ran,
             result |-> "Spi"]
       [] spiFailed /\ ~early ->
            [cs |-> "high",
             events |-> <<Ev("cs_low", 0, 0, TRUE)>> \o ran
                          \o <<Ev("cs_high", 0, 0, TRUE)>>,
             result |-> "Spi"]
       [] fail = "CsHigh" ->
            [cs |-> "low",
             events |-> <<Ev("cs_low", 0, 0, TRUE)>> \o ran
                          \o <<Ev("cs_high", 0, 0, FALSE)>>,
             result |-> "Cs"]
       [] OTHER ->
            [cs |-> "high",
             events |-> <<Ev("cs_low", 0, 0, TRUE)>> \o ran
                          \o <<Ev("cs_high", 0, 0, TRUE)>>,
             result |-> "Ok"]

\* Ms5611::reset
BusReset(cs, fail) == WithCs(cs, <<SpiWrite(RESET)>>, fail, FALSE)

\* Ms5611::read_prom_word
ReadPromWord(cs, address_command, fail) ==
  WithCs(cs, <<SpiWrite(address_command), SpiTransfer(0, 2)>>, fail, TRUE)

\* Ms5611::start_conversion
StartConversion(cs, command, fail) ==
  WithCs(cs, <<SpiWrite(command)>>, fail, FALSE)

\* Ms5611::read_adc_raw
ReadAdcRaw(cs, fail) == WithCs(cs, <<SpiTransfer(ADC_READ, 4)>>, fail, TRUE)

\* Ms5611::read_raw_temperature: start_conversion(..)?, delay_us, read_adc_raw
ReadRawTemperature(cs, osr, f1, f2) ==
  LET a == StartConversion(cs, TemperatureCommand(osr), f1)
      b == ReadAdcRaw(a.cs, f2)
  IN IF a.result # "Ok" THEN a
     ELSE [cs |-> b.cs,
           events |-> a.events
                        \o <<Ev("delay_us", ConversionTimeUs(osr), 0, TRUE)>>
                        \o b.events,
           result |-> b.result]

\* Ms5611::read_raw_pressure
ReadRawPressure(cs, osr, f1, f2) ==
  LET a == StartConversion(cs, PressureCommand(osr), f1)
      b == ReadAdcRaw(a.cs, f2)
  IN IF a.result # "Ok" THEN a
     ELSE [cs |-> b.cs,
           events |-> a.events
                        \o <<Ev("delay_us", ConversionTimeUs(osr), 0, TRUE)>>
                        \o b.events,
           result |-> b.result]

\* read_pressure_temperature that goes on to the pressure after a failed
\* temperature read
ReadPressureTemperatureGoesOn(self, cs, osr, d1_raw, d2_raw, f) ==
  LET t == ReadRawTemperature(cs, osr, f[1], f[2])
      p == ReadRawPressure(t.cs, osr, f[3], f[4])
  IN IF p.result # "Ok"
     THEN [cs |-> p.cs, events |-> t.events \o p.events, result |-> p.result]
     ELSE [cs |-> p.cs,
           events |-> t.events \o p.events \o <<Ev("calculate", 0, 0, TRUE)>>,
           result |-> IF t.result # "Ok" THEN t.result
                      ELSE CalculateCompensatedValues(self, d1_raw, d2_raw).tag]

\* Ms5611::read_pressure_temperature: read_raw_temperature(osr)?,
\* read_raw_pressure(osr)?, calculate_compensated_values.  f: the fault of
\* each of the four transactions
ReadPressureTemperature(self, cs, osr, d1_raw, d2_raw, f) ==
  LET t == ReadRawTemperature(cs, osr, f[1], f[2])
      p == ReadRawPressure(t.cs, osr, f[3], f[4])
  IN IF t.result # "Ok" THEN t
     ELSE IF p.result # "Ok"
     THEN [cs |-> p.cs, events |-> t.events \o p.events, result |-> p.result]
     ELSE [cs |-> p.cs,
           events |-> t.events \o p.events \o <<Ev("calculate", 0, 0, TRUE)>>,
           result |-> CalculateCompensatedValues(self, d1_raw, d2_raw).tag]

\* at most one fault in the four transactions of a reading
ReadingFaults ==
  {<<"none", "none", "none", "none">>}
    \cup {[i \in 1..4 |-> IF i = at THEN how ELSE "none"] :
            at \in 1..4, how \in {"CsLow", "Spi1", "CsHigh"}}

\* the latest call of the driver, as the bus saw it
BusCalled(op, arg, fail, r) ==
  /\ bus.calls < MaxBusCalls
  /\ bus' = [cs |-> r.cs, calls |-> bus.calls + 1, op |-> op, arg |-> arg,
             fail |-> fail, events |-> r.events, result |-> r.result]
  /\ UNCHANGED <<dm, dmHist, sched, canEnv, hist, radio, cmdTx, ms, sbg, mwsvc, canmgr, calc, canrx>>

BusCallReset ==
  \E fail \in FaultsOf(<<SpiWrite(RESET)>>) :
    BusCalled("reset", 0, <<fail>>, BusReset(bus.cs, fail))

BusCallReadPromWord ==
  \E k \in 1..6, fail \in TransactionFaults :
    BusCalled("read_prom_word", PromReadAddr(k), <<fail>>,
              ReadPromWord(bus.cs, PromReadAddr(k), fail))

BusCallStartConversion ==
  \E command \in ConversionCommands, fail \in TransactionFaults \ {"Spi2"} :
    BusCalled("start_conversion", command, <<fail>>,
              StartConversion(bus.cs, command, fail))

BusCallReadAdcRaw ==
  \E fail \in TransactionFaults \ {"Spi2"} :
    BusCalled("read_adc_raw", 0, <<fail>>, ReadAdcRaw(bus.cs, fail))

BusCallReadPressureTemperature ==
  \E osr \in Oversamplings, f \in ReadingFaults, prom \in PromContents,
     d2_raw \in D2Raw, d1_raw \in D1Raw :
    BusCalled("read_pressure_temperature", osr, f,
              ReadPressureTemperature(MsReady(prom), bus.cs, osr,
                                      d1_raw, d2_raw, f))

InitBus ==
  /\ InitDM
  /\ InitSched
  /\ radio = RadioManagerNew
  /\ cmdTx = {}
  /\ ms = [phase |-> "ready"]
  /\ sbg = SbgIdle
  /\ mwsvc = MwIdle
  /\ canmgr = CanIdle
  /\ bus = BusIdle
  /\ calc = CalcIdle
  /\ canrx = CanRxIdle

NextBus ==
  \/ BusCallReset
  \/ BusCallReadPromWord
  \/ BusCallStartConversion
  \/ BusCallReadAdcRaw
  \/ BusCallReadPressureTemperature

SpecBus == InitBus /\ [][NextBus]_vars

\* the steps of a call apart from the chip select: what ran and with what
StepsOf(events) ==
  LET s == SelectSeq(events, LAMBDA e : e.k \notin {"cs_low", "cs_high"})
  IN [i \in 1..Len(s) |-> <<s[i].k, s[i].v>>]

\* the steps of a complete reading at one oversampling level
ReadingSteps(osr) ==
  << <<"write", TemperatureCommand(osr)>>,
     <<"delay_us", ConversionTimeUs(osr)>>,
     <<"transfer", ADC_READ>>,
     <<"write", PressureCommand(osr)>>,
     <<"delay_us", ConversionTimeUs(osr)>>,
     <<"transfer", ADC_READ>>,
     <<"calculate", 0>> >>

ReadingReturned == bus.calls > 0 /\ bus.op = "read_pressure_temperature"

ReadingFaulted == \E i \in 1..4 : bus.fail[i] # "none"

\* C31: a reading runs the D2 conversion command, the delay of the level and
\* the ADC read, then the D1 command, the same delay and the ADC read, and
\* only then the compensation; after a call that fails nothing runs but the
\* raising of the chip select, and the error is what the reading returns
C31_ReadingOrder ==
  ReadingReturned =>
    LET s == StepsOf(bus.events)
        n == Len(bus.events)
    IN /\ IsPrefix(s, ReadingSteps(bus.arg))
       /\ ~ReadingFaulted =>
            /\ s = ReadingSteps(bus.arg)
            /\ bus.result \notin {"Spi", "Cs"}
       /\ ReadingFaulted =>
            /\ bus.result \in {"Spi", "Cs"}
            /\ \A i \in 1..Len(s) : s[i][1] # "calculate"
            /\ \E i \in 1..n :
                 /\ ~bus.events[i].ok
                 /\ \A j \in 1..(i - 1) : bus.events[j].ok
                 /\ \A j \in (i + 1)..n : bus.events[j].k = "cs_high"

\* a reading whose pressure conversion command failed on the SPI bus
C31_Witness ==
  /\ ReadingReturned
  /\ bus.fail[3] = "Spi1"
  /\ bus.result = "Spi"
  /\ Len(StepsOf(bus.events)) = 4

\* the data sheet's table: microseconds of a conversion, D1 command byte and
\* D2 command byte of the oversampling levels 256, 512, 1024, 2048 and 4096
LevelTable ==
  [Osr256 |-> <<600, 64, 80>>,
   Osr512 |-> <<1170, 66, 82>>,
   Osr1024 |-> <<2280, 68, 84>>,
   Osr2048 |-> <<4540, 70, 86>>,
   Osr4096 |-> <<9040, 72, 88>>]

\* the command byte of the conversion a delay waits for: the latest byte
\* written before event i
CommandBefore(events, i) ==
  LET w == {j \in 1..(i - 1) : events[j].k = "write"}
  IN events[CHOOSE j \in w : \A l \in w : l <= j].v

\* C32: the levels 256 .. 4096 have the delays 600, 1170, 2280, 4540 and 9040
\* microseconds, the D1 bytes 0x40 .. 0x48 and the D2 bytes 0x50 .. 0x58, and
\* the delay after a conversion command is that of the command's level
C32_LevelTable ==
  /\ Oversamplings = DOMAIN LevelTable
  /\ \A osr \in Oversamplings :
       /\ ConversionTimeUs(osr) = LevelTable[osr][1]
       /\ PressureCommand(osr) = LevelTable[osr][2]
       /\ TemperatureCommand(osr) = LevelTable[osr][3]
  /\ ReadingReturned =>
       \A i \in 1..Len(bus.events) :
         bus.events[i].k = "delay_us" =>
           \E osr \in DOMAIN LevelTable :
             /\ bus.events[i].v = LevelTable[osr][1]
             /\ CommandBefore(bus.events, i) \in {LevelTable[osr][2], LevelTable[osr][3]}
             /\ osr = bus.arg

\* a complete reading at level 2048: 4540 microseconds after each command
C32_Witness ==
  /\ ReadingReturned
  /\ bus.arg = "Osr2048"
  /\ ~ReadingFaulted
  /\ Len(SelectSeq(bus.events, LAMBDA e : e.k = "delay_us" /\ e.v = 4540)) = 2

(***************************************************************************)
(* DataManager: what handle_data and store_madgwick_result leave alone     *)
(***************************************************************************)
\* the step is a call of handle_data, of store_madgwick_result
HandleDataCalled == opCount' = opCount + 1 /\ lastOp' = "handle_data"
StoreMadgwickResultCalled ==
  opCount' = opCount + 1 /\ lastOp' = "store_madgwick_result"

\* the fields of the DataManager the step changes
Changed == {f \in DOMAIN dm : dm'[f] # dm[f]}

\* the payload kinds whose latest envelope the step replaces
Handled == {k \in DOMAIN latest : latest'[k] # latest[k]}

\* the fields no payload kind has an arm for
KeptByHandleData ==
  {"madgwick_quat", "logging_rate", "reset_reason", "baro_temperature",
   "baro_pressure"}

\* values the barometer fields can hold when handle_data is called
BaroFieldValues == BaroReadings \cup {"None"}

\* C33: handle_data changes at most one field, the slot of the payload's
\* kind (the state slot for a State payload), and never logging_rate,
\* reset_reason or the barometer values; a ResetReason or Command payload
\* changes nothing; store_madgwick_result changes only madgwick_quat
C33_HandleDataFrame ==
  /\ [](\A m \in Envelopes, t \in BaroFieldValues, p \in BaroFieldValues :
          LET d == [dm EXCEPT !.baro_temperature = t, !.baro_pressure = p]
              after == HandleData(d, m)
              stored == StoreMadgwickResult(d, m)
          IN /\ \A f \in KeptByHandleData : after[f] = d[f]
             /\ Cardinality({f \in DOMAIN d : after[f] # d[f]}) <= 1
             /\ m.kind \in {"ResetReason", "Command"} => after = d
             /\ \A f \in DOMAIN d : f # "madgwick_quat" => stored[f] = d[f])
  /\ [][/\ HandleDataCalled =>
             /\ Cardinality(Changed) <= 1
             /\ Changed \cap KeptByHandleData = {}
             /\ \A f \in Changed \cap SlotNames :
                  /\ dm'[f].kind \in SlotKinds
                  /\ SlotOfKind(dm'[f].kind) = f
                  /\ dm'[f] = latest'[dm'[f].kind]
             /\ \A k \in Handled :
                  LET m == latest'[k]
                  IN /\ m.kind = k
                     /\ k \in {"ResetReason", "Command"} => dm' = dm
                     /\ k = "State" => Changed \subseteq {"state"} /\ dm'.state = m.arg
                     /\ k \in SlotKinds =>
                          Changed \subseteq {SlotOfKind(k)} /\ dm'[SlotOfKind(k)] = m
        /\ StoreMadgwickResultCalled =>
             /\ Changed \subseteq {"madgwick_quat"}
             /\ dm'.madgwick_quat = latest'["Madgwick"]
             /\ dm'.ekf_quat = dm.ekf_quat]_vars

\* handle_data stored a State payload in a DataManager that holds a sensor
\* envelope and a rate set by a command
C33_Witness ==
  /\ lastOp = "handle_data"
  /\ dm.state # "None"
  /\ dm.logging_rate = "Fast"
  /\ \E f \in SlotNames : dm[f] # None

(***************************************************************************)
(* MadgwickService: when process_imu_data touches the filter               *)
(***************************************************************************)
\* the step is a call of process_imu_data
ProcessImuDataCalled ==
  mwsvc'.calls = mwsvc.calls + 1 /\ mwsvc'.op = "process_imu_data"

\* the envelope carries an IMU sample with both vectors
HasBothVectors(data) ==
  /\ data.data.kind = "Imu"
  /\ data.data.accelerometers # NoneOpt
  /\ data.data.gyroscopes # NoneOpt

\* C34: process_imu_data runs one filter update, with a zero magnetometer
\* and the sample's gyroscopes and accelerometers, and stores the quaternion
\* that update returned in latest_quat, exactly when its input is an IMU
\* sample with both vectors; for every other input it returns None and
\* leaves the filter, latest_quat, beta and sample_period as they were
C34_UpdateExactlyOnFullImu ==
  [][ProcessImuDataCalled =>
       LET data == mwsvc'.arg
           before == mwsvc.svc
           after == mwsvc'.svc
       IN  /\ HasBothVectors(data) =>
                /\ after.madgwick.fed =
                     Append(before.madgwick.fed,
                            [m |-> Zero3, ar |-> data.data.gyroscopes[1],
                             g |-> data.data.accelerometers[1]])
                /\ after.madgwick.beta = before.madgwick.beta
                /\ after.madgwick.sample_period = before.madgwick.sample_period
                /\ after.latest_quat =
                     <<Component("w", <<after.madgwick>>), Component("x", <<after.madgwick>>),
                       Component("y", <<after.madgwick>>), Component("z", <<after.madgwick>>)>>
                /\ after.beta = before.beta
                /\ after.sample_period = before.sample_period
                /\ mwsvc'.out # NoneOpt
           /\ ~HasBothVectors(data) =>
                /\ mwsvc'.out = NoneOpt
                /\ after = before]_(mwsvc.calls)

\* after a real update, a sample with accelerometers and without gyroscopes
\* was refused
C34_Witness ==
  /\ mwsvc.op = "process_imu_data"
  /\ mwsvc.out = NoneOpt
  /\ mwsvc.arg.data.kind = "Imu"
  /\ mwsvc.arg.data.accelerometers # NoneOpt
  /\ mwsvc.arg.data.gyroscopes = NoneOpt
  /\ Len(mwsvc.svc.madgwick.fed) = BootstrapRounds + 1

(***************************************************************************)
(* calculate_compensated_values in 64 bits                                 *)
(*                                                                         *)
(* The locals of the function are i64.  They are computed here as exact    *)
(* integers, a sign and a magnitude in digits of 15 bits, lowest first,    *)
(* so that a value that does not fit 64 bits is seen instead of wrapped.   *)
(***************************************************************************)
RECURSIVE Pow2(_)
Pow2(n) == IF n = 0 THEN 1 ELSE 2 * Pow2(n - 1)

RECURSIVE DigitsOf(_)
DigitsOf(n) == IF n = 0 THEN <<>> ELSE <<n % Limb>> \o DigitsOf(n \div Limb)

Digit(a, i) == IF i <= Len(a) THEN a[i] ELSE 0

RECURSIVE Trim(_)
Trim(a) ==
  IF a # <<>> /\ a[Len(a)] = 0 THEN Trim(SubSeq(a, 1, Len(a) - 1)) ELSE a

\* -1, 0, 1: the order of two magnitudes
RECURSIVE MagCmpFrom(_, _, _)
MagCmpFrom(a, b, i) ==
  IF i = 0 THEN 0
  ELSE IF Digit(a, i) < Digit(b, i) THEN -1
  ELSE IF Digit(a, i) > Digit(b, i) THEN 1
  ELSE MagCmpFrom(a, b, i - 1)

MagCmp(a, b) == MagCmpFrom(a, b, IF Len(a) > Len(b) THEN Len(a) ELSE Len(b))

RECURSIVE MagAddFrom(_, _, _, _)
MagAddFrom(a, b, i, carry) ==
  IF i > Len(a) /\ i > Len(b)
    THEN IF carry = 0 THEN <<>> ELSE <<carry>>
    ELSE LET s == Digit(a, i) + Digit(b, i) + carry
         IN  <<s % Limb>> \o MagAddFrom(a, b, i + 1, s \div Limb)

MagAdd(a, b) == MagAddFrom(a, b, 1, 0)

\* a - b for a >= b
RECURSIVE MagSubFrom(_, _, _, _)
MagSubFrom(a, b, i, borrow) ==
  IF i > Len(a) THEN <<>>
  ELSE LET s == Digit(a, i) - Digit(b, i) - borrow
       IN  IF s < 0 THEN <<s + Limb>> \o MagSubFrom(a, b, i + 1, 1)
           ELSE <<s>> \o MagSubFrom(a, b, i + 1, 0)

MagSub(a, b) == Trim(MagSubFrom(a, b, 1, 0))

RECURSIVE MagMulDigitFrom(_, _, _, _)
MagMulDigitFrom(a, d, i, carry) ==
  IF i > Len(a)
    THEN IF carry = 0 THEN <<>> ELSE <<carry>>
    ELSE LET s == a[i] * d + carry
         IN  <<s % Limb>> \o MagMulDigitFrom(a, d, i + 1, s \div Limb)

RECURSIVE MagMulFrom(_, _, _)
MagMulFrom(a, b, j) ==
  IF j > Len(b) THEN <<>>
  ELSE MagAdd(MagMulDigitFrom(a, b[j], 1, 0), <<0>> \o MagMulFrom(a, b, j + 1))

MagMul(a, b) == Trim(MagMulFrom(a, b, 1))

\* the magnitude divided by 2^r, r < 15
MagShrBits(a, r) ==
  Trim([i \in 1..Len(a) |->
          a[i] \div Pow2(r) + (Digit(a, i + 1) % Pow2(r)) * Pow2(15 - r)])

\* the magnitude divided by 2^k, and whether bits that were set are lost
MagShr(a, k) ==
  LET q == k \div 15
      r == k % 15
      kept == IF q >= Len(a) THEN <<>> ELSE SubSeq(a, q + 1, Len(a))
      lostDigits == \E i \in 1..Len(a) : i <= q /\ a[i] # 0
      lostBits == kept # <<>> /\ kept[1] % Pow2(r) # 0
  IN  [mag |-> MagShrBits(kept, r), inexact |-> lostDigits \/ lostBits]

\* an exact integer
Wide(neg, mag) == [neg |-> neg /\ mag # <<>>, mag |-> mag]

\* a value that the model's own integers hold
WOf(n) == Wide(n < 0, DigitsOf(Abs(n)))

WNeg(x) == Wide(~x.neg, x.mag)

WAdd(x, y) ==
  IF x.neg = y.neg THEN Wide(x.neg, MagAdd(x.mag, y.mag))
  ELSE IF MagCmp(x.mag, y.mag) >= 0 THEN Wide(x.neg, MagSub(x.mag, y.mag))
  ELSE Wide(y.neg, MagSub(y.mag, x.mag))

WSub(x, y) == WAdd(x, WNeg(y))

WMul(x, y) == Wide(x.neg # y.neg, MagMul(x.mag, y.mag))

\* x << k, k <= 16
WShl(x, k) == WMul(x, WOf(Pow2(k)))

\* x >> k of a signed integer: the floor of x / 2^k
WSar(x, k) ==
  LET s == MagShr(x.mag, k)
  IN  IF x.neg /\ s.inexact THEN Wide(TRUE, MagAdd(s.mag, <<1>>))
      ELSE Wide(x.neg, s.mag)

WLess(x, y) == WSub(x, y).neg

\* 2^31 and 2^63
TwoTo31 == <<0, 0, 2>>
TwoTo63 == <<0, 0, 0, 0, 8>>

\* the value is an i32, an i64
FitsI32(x) ==
  IF x.neg THEN MagCmp(x.mag, TwoTo31) <= 0 ELSE MagCmp(x.mag, TwoTo31) < 0
FitsI64(x) ==
  IF x.neg THEN MagCmp(x.mag, TwoTo63) <= 0 ELSE MagCmp(x.mag, TwoTo63) < 0

\* `as i32` of an i64: the low 32 bits, as a signed value
AsI32(x) ==
  LET low == Trim(<<Digit(x.mag, 1), Digit(x.mag, 2), Digit(x.mag, 3) % 4>>)
      u == IF x.neg /\ low # <<>> THEN MagSub(<<0, 0, 4>>, low) ELSE low
  IN  IF MagCmp(u, TwoTo31) >= 0 THEN Wide(TRUE, MagSub(<<0, 0, 4>>, u))
      ELSE Wide(FALSE, u)

\* a compensation whose sensitivity is C1 * 2^31
CompensationSensShifted(c, d1_raw, d2_raw) ==
  LET c1 == WOf(c[1])
      c3 == WOf(c[3])
      c5 == WOf(c[5])
      d1 == WOf(d1_raw)
      dt == WSub(WOf(d2_raw), WShl(c5, 8))
      c3_dt == WMul(c3, dt)
      sens == WAdd(WMul(WShl(c1, 16), WOf(32768)), WSar(c3_dt, 8))
      zero == WOf(0)
  IN  [dt |-> dt, dt_c6 |-> zero, temp_first |-> zero, temp_i32 |-> zero,
       c4_dt |-> zero, off |-> zero, c3_dt |-> c3_dt, sens |-> sens,
       second |-> FALSE, low |-> FALSE, dt_sq |-> zero, t2 |-> zero,
       temp_diff_sq |-> zero, temp_low_diff_sq |-> zero, off2 |-> zero,
       sens2 |-> zero, off_compensated |-> zero, sens_compensated |-> sens,
       d1_sens |-> WMul(d1, sens), p |-> zero]

\* calculate_compensated_values up to p_i32: every local and every product
\* and sum the code forms on the way
CompensationWide(c, d1_raw, d2_raw) ==
  LET c1 == WOf(c[1])
      c2 == WOf(c[2])
      c3 == WOf(c[3])
      c4 == WOf(c[4])
      c5 == WOf(c[5])
      c6 == WOf(c[6])
      d1 == WOf(d1_raw)
      d2 == WOf(d2_raw)
      dt == WSub(d2, WShl(c5, 8))
      dt_c6 == WMul(dt, c6)
      temp_first == WAdd(WOf(2000), WSar(dt_c6, 23))
      temp_i32 == AsI32(temp_first)
      c4_dt == WMul(c4, dt)
      off == WAdd(WShl(c2, 16), WSar(c4_dt, 7))
      c3_dt == WMul(c3, dt)
      sens == WAdd(WShl(c1, 15), WSar(c3_dt, 8))
      second == WLess(temp_i32, WOf(2000))
      low == second /\ WLess(temp_i32, WOf(-1500))
      dt_sq == WMul(dt, dt)
      t2 == IF second THEN WSar(dt_sq, 31) ELSE WOf(0)
      temp_diff == WSub(temp_i32, WOf(2000))
      temp_diff_sq == WMul(temp_diff, temp_diff)
      temp_low_diff == WAdd(temp_i32, WOf(1500))
      temp_low_diff_sq == WMul(temp_low_diff, temp_low_diff)
      off2 == IF ~second THEN WOf(0)
              ELSE IF ~low THEN WSar(WMul(WOf(5), temp_diff_sq), 1)
              ELSE WAdd(WSar(WMul(WOf(5), temp_diff_sq), 1),
                        WMul(WOf(7), temp_low_diff_sq))
      sens2 == IF ~second THEN WOf(0)
               ELSE IF ~low THEN WSar(WMul(WOf(5), temp_diff_sq), 2)
               ELSE WAdd(WSar(WMul(WOf(5), temp_diff_sq), 2),
                         WSar(WMul(WOf(11), temp_low_diff_sq), 1))
      off_compensated == WSub(off, off2)
      sens_compensated == WSub(sens, sens2)
      d1_sens == WMul(d1, sens_compensated)
      p == WSar(WSub(WSar(d1_sens, 21), off_compensated), 15)
  IN  [dt |-> dt, dt_c6 |-> dt_c6, temp_first |-> temp_first,
       temp_i32 |-> temp_i32, c4_dt |-> c4_dt, off |-> off, c3_dt |-> c3_dt,
       sens |-> sens, second |-> second, low |-> low,
       dt_sq |-> IF second THEN dt_sq ELSE WOf(0), t2 |-> t2,
       temp_diff_sq |-> IF second THEN temp_diff_sq ELSE WOf(0),
       temp_low_diff_sq |-> IF low THEN temp_low_diff_sq ELSE WOf(0),
       off2 |-> off2, sens2 |-> sens2, off_compensated |-> off_compensated,
       sens_compensated |-> sens_compensated, d1_sens |-> d1_sens, p |-> p]

\* the largest value of a PROM word and of a 24-bit conversion result
U16Max == 65535
U24Max == 16777215

\* coefficient sets: every word at one end of its range, and the two sets of
\* the readings above
CornerCoefficients ==
  {<<a, b, c, d, e, f>> : a \in {0, U16Max}, b \in {0, U16Max}, c \in {0, U16Max},
                          d \in {0, U16Max}, e \in {0, U16Max}, f \in {0, U16Max}}
    \cup PromContents

\* conversion results: the ends of the 24-bit range and a usual value
CornerRaw == {0, 8566784, U24Max}

\* one call of calculate_compensated_values
CalcCall ==
  /\ calc.calls = 0
  /\ \E c \in CornerCoefficients, d1_raw \in CornerRaw, d2_raw \in CornerRaw :
       calc' = [calls |-> 1, c |-> c, d1_raw |-> d1_raw, d2_raw |-> d2_raw,
                locals |-> CompensationWide(c, d1_raw, d2_raw)]
  /\ UNCHANGED <<dm, dmHist, sched, canEnv, hist, radio, cmdTx, ms, sbg, mwsvc, canmgr, bus, canrx>>

InitCalc ==
  /\ InitDM
  /\ InitSched
  /\ radio = RadioManagerNew
  /\ cmdTx = {}
  /\ ms = [phase |-> "ready"]
  /\ sbg = SbgIdle
  /\ mwsvc = MwIdle
  /\ canmgr = CanIdle
  /\ bus = BusIdle
  /\ calc = CalcIdle
  /\ canrx = CanRxIdle

SpecCalc == InitCalc /\ [][CalcCall]_vars

\* the locals the claim names, and the products and sums they are made of
WideLocals ==
  {"dt", "dt_c6", "temp_first", "c4_dt", "off", "c3_dt", "sens", "dt_sq", "t2",
   "temp_diff_sq", "temp_low_diff_sq", "off2", "sens2", "off_compensated",
   "sens_compensated", "d1_sens", "p"}

\* C35: with 16-bit coefficients and 24-bit conversion results no local of
\* the compensation leaves the range of an i64, and the first-order
\* temperature 2000 + dT * C6 / 2^23 is an i32
C35_NoOverflow ==
  calc.calls > 0 =>
    /\ \A l \in WideLocals : FitsI64(calc.locals[l])
    /\ FitsI32(calc.locals.temp_first)
    /\ calc.locals.temp_i32 = calc.locals.temp_first

\* the largest sensitivity meets the largest pressure value in the coldest
\* case: D1 * SENS needs more than 60 bits
C35_Witness ==
  /\ calc.calls > 0
  /\ calc.c = <<0, 0, U16Max, 0, U16Max, U16Max>>
  /\ calc.d1_raw = U24Max
  /\ calc.d2_raw = 0
  /\ calc.locals.low
  /\ Len(calc.locals.d1_sens.mag) = 5

(***************************************************************************)
(* Ms5611: chip select around every transaction                            *)
(***************************************************************************)
\* the latest call was one of the four transactions and returned Ok or an
\* SPI error
TransactionReturned ==
  /\ bus.calls > 0
  /\ bus.op \in {"reset", "read_prom_word", "start_conversion", "read_adc_raw"}
  /\ bus.result \in {"Ok", "Spi"}

\* C36: when reset, read_prom_word, start_conversion or read_adc_raw returns,
\* with Ok or with an SPI error, the chip select has been driven high again
C36_ChipSelectFramed ==
  TransactionReturned =>
    /\ bus.cs = "high"
    /\ bus.events[Len(bus.events)] = Ev("cs_high", 0, 0, TRUE)

(***************************************************************************)
(* The two barometer fields                                                *)
(***************************************************************************)
\* the step changes a barometer field of the DataManager
BaroFieldsWritten ==
  \/ dm'.baro_temperature # dm.baro_temperature
  \/ dm'.baro_pressure # dm.baro_pressure

MaxRxFrames == 3

\* let mut buf = [0u8; 64]
ZeroBuf == [i \in 1..CanBufLen |-> 0]

\* the postcard encoding of a CanMessage, reduced to the two variant
\* indices that tell the envelopes of the model apart: the payload kind and
\* the command or state.  The encoding has no length and no end mark.
CanEncoding(m) ==
  CASE m = Env("State", 1, "Initializing") -> <<0, 0>>
    [] m = Env("State", 1, "Armed") -> <<0, 1>>
    [] m = Env("Command", 1, "PowerDown") -> <<2, 0>>
    [] m = Env("Command", 1, "RateFast") -> <<2, 1>>
    [] m = Env("Command", 1, "RateSlow") -> <<2, 2>>

\* the envelopes a CAN frame can carry
CanEnvelopes ==
  {Env("State", 1, "Initializing"), Env("State", 1, "Armed"),
   Env("Command", 1, "PowerDown"), Env("Command", 1, "RateFast"),
   Env("Command", 1, "RateSlow")}

\* postcard::from_bytes::<CanMessage>(bytes): the envelope whose encoding the
\* bytes start with; bytes after it are ignored
FromBytesCan(bytes) ==
  IF Len(bytes) >= 2 /\ \E m \in CanEnvelopes : CanEncoding(m) = SubSeq(bytes, 1, 2)
    THEN [tag |-> "Ok",
          msg |-> CHOOSE m \in CanEnvelopes : CanEncoding(m) = SubSeq(bytes, 1, 2)]
    ELSE [tag |-> "Err", msg |-> None]

\* self.can.receive0(&mut buf): the data bytes of the frame are copied to
\* the start of the buffer, the rest of the buffer is not written
Receive0(buf, payload) ==
  [i \in 1..CanBufLen |-> IF i <= Len(payload) THEN payload[i] ELSE buf[i]]

\* the data bytes of the frames on the bus: whole encodings, an encoding cut
\* after its first byte, no byte at all, and bytes that encode nothing
RxPayloads ==
  {CanEncoding(m) : m \in CanEnvelopes} \cup {<<2>>, <<0>>, <<>>, <<9>>, <<9, 9>>}

\* one turn of the loop of process_data: receive0 gave a frame, and the
\* whole buffer goes to from_bytes; what decodes goes to handle_command.
\* handled: the outcomes of from_bytes since the start, in order
CanRxFrame ==
  /\ canrx.frames < MaxRxFrames
  /\ \E payload \in RxPayloads :
       LET buf == Receive0(IF canrx.frames = 0 THEN ZeroBuf ELSE canrx.buf, payload)
           data == FromBytesCan(buf)
       IN  canrx' = [frames |-> canrx.frames + 1, op |-> "frame", buf |-> buf,
                     frame |-> payload,
                     passed |-> IF data.tag = "Ok" THEN data.msg ELSE None,
                     handled |-> IF canrx.frames = 0 THEN <<data.tag>>
                                 ELSE Append(canrx.handled, data.tag)]
  /\ UNCHANGED <<dm, dmHist, sched, canEnv, hist, radio, cmdTx, ms, sbg, mwsvc, canmgr, bus, calc>>

\* receive0 has no frame: process_data returns; the next call starts with a
\* buffer of zeros
CanRxReturn ==
  /\ canrx.frames > 0
  /\ canrx.frames < MaxRxFrames
  /\ canrx.op = "frame"
  /\ canrx' = [canrx EXCEPT !.op = "return", !.buf = ZeroBuf, !.frame = <<>>,
                            !.passed = None]
  /\ UNCHANGED <<dm, dmHist, sched, canEnv, hist, radio, cmdTx, ms, sbg, mwsvc, canmgr, bus, calc>>

InitCanRx ==
  /\ InitDM
  /\ InitSched
  /\ radio = RadioManagerNew
  /\ cmdTx = {}
  /\ ms = [phase |-> "ready"]
  /\ sbg = SbgIdle
  /\ mwsvc = MwIdle
  /\ canmgr = CanIdle
  /\ bus = BusIdle
  /\ calc = CalcIdle
  /\ canrx = CanRxIdle

NextCanRx == CanRxFrame \/ CanRxReturn

SpecCanRx == InitCanRx /\ [][NextCanRx]_vars

\* what the data bytes of a frame decode to when nothing was received into
\* the buffer before them
DecodedAlone(payload) ==
  LET data == FromBytesCan(Receive0(ZeroBuf, payload))
  IN  IF data.tag = "Ok" THEN data.msg ELSE None

\* C38: the envelope process_data passes to handle_command for a frame is
\* fixed by the data bytes of that frame: it is what these bytes decode to
\* with no earlier frame in the buffer
C38_FrameBytesAlone ==
  (canrx.frames > 0 /\ canrx.op = "frame")
    => canrx.passed = DecodedAlone(canrx.frame)

(***************************************************************************)
(* sensor_send: the drained envelopes and send_gs                          *)
(***************************************************************************)
\* the step is the em.run of sensor_send over the array it took
SensorsSent == pc["sensor_send"] = "send" /\ pc'["sensor_send"] = "delay"

\* the envelopes of the array take_sensors returned
Drained == SelectSeq(loc.ssTaken, LAMBDA m : m # None)

C40_TasksSuspend ==
  \A t \in SwTasks : Running(t) ~> ~OnStack(t)

=============================================================================
